---- MODULE Spec2Model ----
(***************************************************************************)
(* A model of the crawl engine of the Kwork.ru parser:                     *)
(*   utils/rate_limiter.py  RateLimiter   (the rate governor)              *)
(*   utils/retry.py         retry_async   (the retry orchestrator)         *)
(*   core/parser.py         KworkParser.fetch_page (the fetch executor)    *)
(*   core/parser.py         KworkParser.parse_all_pages (the walker)       *)
(*   core/selectors.py      SelectorMatcher (the selector resolver)        *)
(*   utils/user_agents.py   UserAgentRotator (the identity rotator)        *)
(*   core/parser.py         extract_project_data, _parse_price             *)
(*                                                                         *)
(* Time is an integer number of ticks of 0.1 s.  A coroutine suspended in  *)
(* asyncio.sleep(d) at time T may resume at any time >= T + d.  Code that  *)
(* runs between two suspension points of the event loop is one action.     *)
(* Waiting for the asyncio.Lock / asyncio.Semaphore is a suspension point; *)
(* the lock is granted to any waiter (a superset of asyncio's FIFO order). *)
(***************************************************************************)
EXTENDS Integers, Sequences, FiniteSets, TLC

\* ------------------------------------------------------------------ bounds
NumTasks == 2
MaxCalls == 3
MaxReports == 5
MaxPagesAsked == 3
NumAddrs == 2
MaxSoups == 2
MaxRotations == 6
MaxWalk == 18
MaxCards == 2
MaxProcesses == 2
MaxPriceLen == 5
MaxProjects == 5
MaxElapse == 1
MaxRuns == 1
MaxFetches == 2
MaxFaults == 2

\* ------------------------------------------------- program constants (ticks)
SecondWindow == 10
MinuteWindow == 600
HourWindow == 36000
BlockPerError == 300
NoStatus == 0

Tasks == 1..NumTasks

VARIABLES
  config,        \* RateLimiter.config (RateLimitConfig), fixed at construction
  retry_config,  \* KworkParser.retry_config (RetryConfig)
  semaphore,     \* KworkParser.semaphore: [size, value]
  limiter,       \* the RateLimiter instance of the host: windows, delay, block, lock
  task,          \* per coroutine: where it is suspended and its local variables
  now,           \* time.time()
  acqLog,        \* one entry per request recorded by _add_request, in order
  budget,        \* operations started so far (bounds the exploration)
  crawl,         \* one parse_all_pages generator, its inputs and what it yielded
  matcher,       \* the SelectorMatcher instance, the live document and the last call
  rotator,       \* one UserAgentRotator and what its last call returned
  extractor,     \* the process extracting projects from pages, and the ids it assigned
  price,         \* one _parse_price call: its argument and what it returned
  notifier       \* one TelegramNotifier: the queue and timer of a chat, the sends

vars == <<config, retry_config, semaphore, limiter, task, now, acqLog, budget, crawl, matcher,
          rotator, extractor, price, notifier>>

\* ------------------------------------------------------------- helpers
Max(a, b) == IF a >= b THEN a ELSE b
Min(a, b) == IF a <= b THEN a ELSE b

RECURSIVE DropOld(_, _, _)
\* while window and now - window[0] > horizon: window.popleft()
DropOld(window, t, horizon) ==
  IF window # <<>> /\ t - Head(window) > horizon
  THEN DropOld(Tail(window), t, horizon)
  ELSE window

\* --------------------------------------------------- RateLimitConfig values
RateConfigs ==
  { [requests_per_second |-> 1, requests_per_minute |-> 1, requests_per_hour |-> 2,
     adaptive |-> TRUE, backoff_factor |-> 2, recovery_time |-> 450,
     min_delay |-> 5, max_delay |-> 20],
    [requests_per_second |-> 1, requests_per_minute |-> 3, requests_per_hour |-> 3,
     adaptive |-> TRUE, backoff_factor |-> 2, recovery_time |-> 10,
     min_delay |-> 0, max_delay |-> 20],
    [requests_per_second |-> 2, requests_per_minute |-> 2, requests_per_hour |-> 3,
     adaptive |-> FALSE, backoff_factor |-> 2, recovery_time |-> 3000,
     min_delay |-> 3, max_delay |-> 10] }

\* RateLimiter.__init__
NewLimiter(cfg) ==
  [ second_window |-> <<>>, minute_window |-> <<>>, hour_window |-> <<>>,
    lock |-> 0,
    current_delay |-> cfg.min_delay,
    consecutive_errors |-> 0,
    is_blocked |-> FALSE,
    block_until |-> 0 ]

\* RateLimiter._cleanup_windows
cleanup_windows(l, t) ==
  [l EXCEPT !.second_window = DropOld(@, t, SecondWindow),
            !.minute_window = DropOld(@, t, MinuteWindow),
            !.hour_window   = DropOld(@, t, HourWindow)]

\* variant: a window delays only when it holds more than `limit` entries
window_delay_above_limit(window, limit, horizon, t) ==
  IF Len(window) > limit /\ window # <<>>
  THEN Max(horizon - (t - Head(window)), 0)
  ELSE 0

\* delay_needed of one window in _enforce_rate_limits (0 when none is appended)
window_delay(window, limit, horizon, t) ==
  IF Len(window) >= limit /\ window # <<>>
  THEN Max(horizon - (t - Head(window)), 0)
  ELSE 0

\* max(delays) in _enforce_rate_limits, 0 when delays is empty;
\* l is the limiter after _cleanup_windows(now)
rate_limit_delay(l, cfg, t) ==
  Max(window_delay(l.second_window, cfg.requests_per_second, SecondWindow, t),
      Max(window_delay(l.minute_window, cfg.requests_per_minute, MinuteWindow, t),
          window_delay(l.hour_window, cfg.requests_per_hour, HourWindow, t)))

\* RateLimiter._add_request
add_request(l, t) ==
  [l EXCEPT !.second_window = Append(@, t),
            !.minute_window = Append(@, t),
            !.hour_window   = Append(@, t)]

\* variant: the delay grows without the max_delay ceiling
increase_delay_uncapped(l, cfg) ==
  [l EXCEPT !.current_delay = @ * cfg.backoff_factor]

\* RateLimiter._increase_delay
increase_delay(l, cfg) ==
  [l EXCEPT !.current_delay = Min(@ * cfg.backoff_factor, cfg.max_delay)]

\* RateLimiter._decrease_delay
decrease_delay(l, cfg) ==
  IF l.current_delay > cfg.min_delay
  THEN [l EXCEPT !.current_delay = Max(@ \div cfg.backoff_factor, cfg.min_delay)]
  ELSE l

\* variant: the block grows without the recovery_time ceiling
apply_temporary_block_uncapped(l, cfg, t) ==
  [l EXCEPT !.is_blocked = TRUE,
            !.block_until = t + l.consecutive_errors * BlockPerError]

\* RateLimiter._apply_temporary_block
apply_temporary_block(l, cfg, t) ==
  [l EXCEPT !.is_blocked = TRUE,
            !.block_until = t + Min(l.consecutive_errors * BlockPerError,
                                    cfg.recovery_time)]

\* the statuses report_error treats as critical
CriticalStatuses == {429, 503, 521, 522, 523, 524}

\* body of RateLimiter.report_error under the lock (config.adaptive is true)
report_error(l, cfg, status, t) ==
  LET e == [l EXCEPT !.consecutive_errors = @ + 1] IN
  IF status \in CriticalStatuses
  THEN LET d == increase_delay(e, cfg) IN
       IF status = 429 THEN apply_temporary_block(d, cfg, t) ELSE d
  ELSE e

\* body of RateLimiter.report_success under the lock (config.adaptive is true)
report_success(l, cfg) ==
  IF l.consecutive_errors > 0
  THEN LET e == [l EXCEPT !.consecutive_errors = Max(0, @ - 1)] IN
       IF e.consecutive_errors = 0 THEN decrease_delay(e, cfg) ELSE e
  ELSE l

\* ------------------------------------------------------------ retry.py
\* RetryConfig values
RetryConfigs ==
  { [max_attempts |-> n, base_delay |-> 10, max_delay |-> 30,
     exponential_base |-> 2, jitter |-> j, backoff_multiplier |-> 1]
    : n \in 0..3, j \in BOOLEAN }

\* the classes an exception of class cls is an instance of (isinstance);
\* aiohttp.ClientResponseError and the connection errors derive from
\* aiohttp.ClientError, ConnectionError from OSError
Bases(cls) ==
  CASE cls = "ClientResponseError"   -> {"ClientResponseError", "ClientError"}
    [] cls = "ClientConnectionError" -> {"ClientConnectionError", "ClientError"}
    [] cls = "ConnectionError"       -> {"ConnectionError", "OSError"}
    [] OTHER                         -> {cls}

RETRYABLE_EXCEPTIONS ==
  {"ClientError", "ServerTimeoutError", "ClientTimeout", "TimeoutError",
   "ConnectionError", "OSError", "RetryableError"}

RETRYABLE_STATUS_CODES == {429, 500, 502, 503, 504, 521, 522, 523, 524}

is_retryable_http_status(status_code) == status_code \in RETRYABLE_STATUS_CODES

\* variant: every exception except NonRetryableError is retried
is_retryable_exception_any(e) == "NonRetryableError" \notin Bases(e.cls)

\* is_retryable_exception(exception)
is_retryable_exception(e) ==
  IF "NonRetryableError" \in Bases(e.cls) THEN FALSE
  ELSE IF Bases(e.cls) \cap RETRYABLE_EXCEPTIONS # {} THEN TRUE
  ELSE IF "ClientResponseError" \in Bases(e.cls) THEN is_retryable_http_status(e.status)
  ELSE FALSE

RECURSIVE Pow(_, _)
Pow(b, n) == IF n <= 0 THEN 1 ELSE b * Pow(b, n - 1)

\* variant: the exponential delay without the ceiling
capped_delay_unbounded(attempt, cfg) ==
  cfg.base_delay * Pow(cfg.exponential_base, attempt - 1) * cfg.backoff_multiplier

\* calculate_delay before the jitter: the capped exponential delay
capped_delay(attempt, cfg) ==
  Min(cfg.base_delay * Pow(cfg.exponential_base, attempt - 1) * cfg.backoff_multiplier,
      cfg.max_delay)

\* the value random.uniform(-jitter_range, jitter_range) returns, for a draw
\* of -1 (least), 0 (middle) or 1 (greatest)
uniform(jitter_range, draw) == draw * jitter_range

JitterDraws == {0 - 1, 0, 1}

\* the draws that make a difference under a retry configuration
Draws(cfg) == IF cfg.jitter THEN JitterDraws ELSE {0}

\* calculate_delay(attempt, config)
calculate_delay(attempt, cfg, draw) ==
  LET delay == capped_delay(attempt, cfg)
      jitter_range == delay \div 10
  IN IF cfg.jitter
     THEN Max(0, delay + uniform(jitter_range, draw))
     ELSE Max(0, delay)

\* variant: the loop gives up one attempt early
retry_decision_early(res, attempt, cfg) ==
  IF res.kind = "ok" THEN "return"
  ELSE IF ~is_retryable_exception(res) THEN "raise"
  ELSE IF attempt + 1 >= cfg.max_attempts THEN "raise"
  ELSE "sleep"

\* what the loop of retry_async does with the outcome of attempt number `attempt`
retry_decision(res, attempt, cfg) ==
  IF res.kind = "ok" THEN "return"
  ELSE IF ~is_retryable_exception(res) THEN "raise"
  ELSE IF attempt = cfg.max_attempts THEN "raise"
  ELSE "sleep"

\* the retryable_exceptions argument of retry_async: None, or a tuple of
\* exception classes
NoTuple == [given |-> FALSE, classes |-> {}]

RetryableArgs == {NoTuple, [given |-> TRUE, classes |-> {"ValueError"}]}

\* retry_async: `if retryable_exceptions is None: retryable_exceptions =
\* RETRYABLE_EXCEPTIONS`, the value of the local name in the loop
retryable_exceptions_of(arg) ==
  IF ~arg.given THEN RETRYABLE_EXCEPTIONS ELSE arg.classes

\* ----------------------------------------------------------- coroutines
NoResult == [kind |-> "none", cls |-> "", status |-> NoStatus, k |-> 0]

\* a coroutine that has not started an operation
IdleTask ==
  [ pc |-> "idle", wake |-> 0, cont |-> "idle",
    called |-> 0, enter |-> 0, blk |-> 0, seen |-> 0,   \* acquire()
    pending |-> <<>>,                              \* governor reports still to make
    slot |-> FALSE, retry_on_error |-> TRUE,       \* fetch_page
    blockedGet |-> FALSE,
    on_retry |-> FALSE, attempt |-> 0,             \* retry_async
    retryable_exceptions |-> NoTuple,
    result |-> NoResult, raised |-> NoResult,
    hist |-> <<>>, sleeps |-> 0, callbacks |-> 0 ]

\* what a run has done so far; limit is the number of governor calls it makes
NoBudget ==
  [calls |-> 0, limit |-> 0, elapse |-> 0, runs |-> 0, faults |-> 0]

\* The code a coroutine runs between two suspension points is evaluated on a
\* record w: the shared objects, the coroutine's own record `me`, whether
\* another coroutine already waits for the governor's lock, and the random draw.
World(t, draw) ==
  [ limiter |-> limiter, semaphore |-> semaphore, log |-> acqLog,
    me |-> task[t], t |-> t, draw |-> draw,
    contended |-> \E u \in Tasks : u # t /\ task[u].pc \in {"acq_wait", "rep_wait"} ]

\* variant: a semaphore that never makes a caller wait
sem_available_always(sem) == TRUE

\* asyncio.Semaphore: a slot can be taken without waiting
sem_available(sem) == sem.value > 0

\* variant: a lock that never makes a caller wait
lock_free_always(l) == TRUE

\* asyncio.Lock: the lock is not held
lock_free(l) == l.lock = 0

\* fetch_page: `async with self.semaphore`, then rate_limiter.acquire() is called
semaphore_enter(w) ==
  IF sem_available(w.semaphore)
  THEN [w EXCEPT !.semaphore.value = @ - 1,
                 !.me.slot = TRUE, !.me.pc = "acq_try", !.me.cont = "fetch_go"]
  ELSE [w EXCEPT !.me.pc = "sem_wait"]

\* acquire: the lock is taken by w.t
lock_taken(w) ==
  [w EXCEPT !.limiter.lock = w.t, !.me.pc = "acq_block_check",
            !.me.enter = now, !.me.blk = w.limiter.block_until]

\* acquire: `async with self._lock`; a coroutine waits when the lock is held
\* or others already wait for it
acquire(w) ==
  IF lock_free(w.limiter) /\ ~w.contended
  THEN lock_taken([w EXCEPT !.me.called = now])
  ELSE [w EXCEPT !.me.pc = "acq_wait", !.me.called = now]

\* RateLimiter._wait_if_blocked, up to its sleep
wait_if_blocked(w) ==
  IF w.limiter.is_blocked /\ now < w.limiter.block_until
  THEN [w EXCEPT !.me.pc = "acq_blocked", !.me.wake = w.limiter.block_until]
  ELSE [w EXCEPT !.me.pc = "acq_enforce"]

\* RateLimiter._wait_if_blocked, after its sleep
block_cleared(w) ==
  [w EXCEPT !.limiter.is_blocked = FALSE, !.me.pc = "acq_enforce"]

\* RateLimiter._enforce_rate_limits, up to its sleep
enforce_rate_limits(w) ==
  LET c == cleanup_windows(w.limiter, now)
      d == rate_limit_delay(c, config, now)
  IN IF d > 0
     THEN [w EXCEPT !.limiter = c, !.me.seen = Len(w.log),
                    !.me.pc = "acq_limited", !.me.wake = now + d]
     ELSE [w EXCEPT !.limiter = c, !.me.seen = Len(w.log), !.me.pc = "acq_add"]

\* acquire: _add_request; the request is recorded
request_added(w) ==
  [w EXCEPT !.limiter = add_request(w.limiter, now),
            !.log = Append(w.log, [enter |-> w.me.enter, at |-> now,
                                   blk |-> w.me.blk, seen |-> w.me.seen]),
            !.me.pc = "acq_delay"]

\* RateLimiter._apply_delay, up to its sleep
apply_delay(w) ==
  IF w.limiter.current_delay > 0
  THEN [w EXCEPT !.me.pc = "acq_pacing", !.me.wake = now + w.limiter.current_delay]
  ELSE [w EXCEPT !.me.pc = "acq_exit"]

\* variant: acquire returns without releasing the lock
acquire_exit_holding(w) ==
  [w EXCEPT !.me = [w.me EXCEPT !.pc = w.me.cont, !.wake = 0, !.called = 0,
                                !.enter = 0, !.blk = 0, !.seen = 0]]

\* acquire returns: the lock is released, the locals are gone
acquire_exit(w) ==
  [w EXCEPT !.limiter.lock = 0,
            !.me = [w.me EXCEPT !.pc = w.me.cont, !.wake = 0, !.called = 0,
                                !.enter = 0, !.blk = 0, !.seen = 0]]

\* variant: reset leaves no pacing delay at all
reset_to_zero(l, cfg) ==
  [l EXCEPT !.second_window = <<>>, !.minute_window = <<>>, !.hour_window = <<>>,
            !.current_delay = 0, !.consecutive_errors = 0,
            !.is_blocked = FALSE, !.block_until = 0]

\* RateLimiter.reset
reset(l, cfg) ==
  [l EXCEPT !.second_window = <<>>, !.minute_window = <<>>, !.hour_window = <<>>,
            !.current_delay = cfg.min_delay, !.consecutive_errors = 0,
            !.is_blocked = FALSE, !.block_until = 0]

\* the limiter after one report or reset; without config.adaptive a report
\* returns at once
apply_report(l, cfg, r, t) ==
  IF r.op = "reset" THEN reset(l, cfg)
  ELSE IF ~cfg.adaptive THEN l
  ELSE IF r.op = "error" THEN report_error(l, cfg, r.status, t)
  ELSE report_success(l, cfg)

\* the head of the pending reports is made
report_made(w) ==
  [w EXCEPT !.limiter = apply_report(w.limiter, config, Head(w.me.pending), now),
            !.me.pending = Tail(@), !.me.pc = "report"]

\* the pending report_error / report_success calls of a coroutine: each takes
\* the lock (`async with self._lock`) unless the governor is not adaptive
make_reports(w) ==
  IF w.me.pending = <<>> THEN [w EXCEPT !.me.pc = w.me.cont]
  ELSE IF ~config.adaptive \/ (lock_free(w.limiter) /\ ~w.contended) THEN report_made(w)
  ELSE [w EXCEPT !.me.pc = "rep_wait"]

\* retry_async is entered: the loop starts, or has no iteration at all
retry_begin(me, cfg) ==
  IF cfg.max_attempts >= 1
  THEN [me EXCEPT !.pc = "retry_call", !.attempt = 1, !.hist = <<>>,
                  !.sleeps = 0, !.callbacks = 0,
                  !.result = NoResult, !.raised = NoResult]
  ELSE [me EXCEPT !.pc = "raised", !.attempt = 0, !.hist = <<>>,
                  !.sleeps = 0, !.callbacks = 0, !.result = NoResult,
                  !.raised = [kind |-> "exc", cls |-> "RuntimeError",
                              status |-> NoStatus, k |-> 0]]

\* fetch_page after acquire(): retry_async(_fetch), or _fetch() alone
fetch_go(w) ==
  IF w.me.retry_on_error
  THEN [w EXCEPT !.me = retry_begin(w.me, retry_config)]
  ELSE [w EXCEPT !.me = [retry_begin(w.me, retry_config) EXCEPT
                           !.pc = "retry_call", !.attempt = 1, !.raised = NoResult]]

\* retry_async invokes func; inside fetch_page func is _fetch, which issues the GET
invoke(w) ==
  IF w.me.slot
  THEN [w EXCEPT !.me.pc = "net",
                 !.me.blockedGet =
                    @ \/ (w.limiter.is_blocked /\ now < w.limiter.block_until)]
  ELSE [w EXCEPT !.me.pc = "op"]

\* the except clause and the return of retry_async (of fetch_page when it
\* calls _fetch alone)
retry_handle(w) ==
  LET me == w.me
      what == IF me.retry_on_error
              THEN retry_decision(me.result, me.attempt, retry_config)
              ELSE IF me.result.kind = "ok" THEN "return" ELSE "raise"
  IN CASE what = "return" ->
            [w EXCEPT !.me.pc = "returned", !.me.result = NoResult]
       [] what = "raise" ->
            [w EXCEPT !.me.pc = "raised", !.me.raised = me.result,
                      !.me.result = NoResult]
       [] OTHER ->
            [w EXCEPT !.me.pc = "retry_sleep",
                      !.me.wake = now + calculate_delay(me.attempt, retry_config, w.draw),
                      !.me.sleeps = @ + 1,
                      !.me.callbacks = IF me.on_retry THEN @ + 1 ELSE @,
                      !.me.result = NoResult]

\* retry_async: the sleep is over, the next iteration of the loop
retry_next(w) ==
  [w EXCEPT !.me.pc = "retry_call", !.me.attempt = @ + 1, !.me.wake = 0]

\* fetch_page returns or raises: the semaphore is left
fetch_exit(w) ==
  [w EXCEPT !.semaphore.value = @ + 1, !.me.slot = FALSE,
            !.me.pc = IF w.me.pc = "returned" THEN "done" ELSE "failed"]

\* where a coroutine stays until an event resumes it
Suspended(me) ==
  \/ me.pc \in {"idle", "sem_wait", "acq_wait", "acq_blocked", "acq_limited",
                "acq_pacing", "rep_wait", "net", "op", "retry_sleep",
                "page_sleep", "done", "failed", "cancelled"}
  \/ me.pc \in {"returned", "raised"} /\ ~me.slot

\* the code at the coroutine's position
Step(w) ==
  CASE w.me.pc = "sem_try"         -> semaphore_enter(w)
    [] w.me.pc = "acq_try"         -> acquire(w)
    [] w.me.pc = "acq_block_check" -> wait_if_blocked(w)
    [] w.me.pc = "acq_unblock"     -> block_cleared(w)
    [] w.me.pc = "acq_enforce"     -> enforce_rate_limits(w)
    [] w.me.pc = "acq_add"         -> request_added(w)
    [] w.me.pc = "acq_delay"       -> apply_delay(w)
    [] w.me.pc = "acq_exit"        -> acquire_exit(w)
    [] w.me.pc = "fetch_go"        -> fetch_go(w)
    [] w.me.pc = "retry_call"      -> invoke(w)
    [] w.me.pc = "report"          -> make_reports(w)
    [] w.me.pc = "retry_handle"    -> retry_handle(w)
    [] w.me.pc = "retry_next"      -> retry_next(w)
    [] OTHER                       -> fetch_exit(w)

RECURSIVE Run(_)
\* the coroutine runs until it suspends
Run(w) ==
  CHOOSE end \in {IF Suspended(v.me) THEN v ELSE Run(Step(v)) : v \in {w}} : TRUE

\* coroutine t runs from position pc, with `me` as its record
Resume(t, me, pc, draw) ==
  LET w == Run([World(t, draw) EXCEPT !.me = [me EXCEPT !.pc = pc]]) IN
  /\ limiter' = w.limiter
  /\ semaphore' = w.semaphore
  /\ acqLog' = w.log
  /\ task' = [task EXCEPT ![t] = w.me]

\* ------------------------------------------------------------- events
\* the coroutines are interchangeable: of those that run nothing, the one
\* with the lowest number makes the next call
StartedBelow(t) == \A u \in Tasks : u < t => task[u].pc # "idle"

\* the governor's lock is neither held nor waited for
LockIdle ==
  /\ lock_free(limiter)
  /\ \A u \in Tasks : task[u].pc \notin {"acq_wait", "rep_wait"}

\* fetch_page(url, params, retry_on_error) is called; the calls of one run
\* pass the same retry_on_error
FetchStart(t, roe) ==
  /\ task[t].pc = "idle"
  /\ StartedBelow(t)
  /\ \A u \in Tasks : task[u].pc # "idle" => task[u].retry_on_error = roe
  /\ budget.runs < MaxFetches
  /\ Resume(t, [task[t] EXCEPT !.retry_on_error = roe], "sem_try", 0)
  /\ budget' = [budget EXCEPT !.runs = @ + 1]
  /\ UNCHANGED <<notifier, rotator, extractor, price, crawl, matcher, config, retry_config, now>>

\* a waiter of the semaphore gets a slot
SemGranted(t) ==
  /\ task[t].pc = "sem_wait"
  /\ sem_available(semaphore)
  /\ Resume(t, task[t], "sem_try", 0)
  /\ UNCHANGED <<notifier, rotator, extractor, price, crawl, matcher, config, retry_config, now, budget>>

\* a waiter of the lock in acquire() gets it
LockGranted(t) ==
  /\ task[t].pc = "acq_wait"
  /\ lock_free(limiter)
  /\ LET w == Run(lock_taken(World(t, 0))) IN
       /\ limiter' = w.limiter
       /\ semaphore' = w.semaphore
       /\ acqLog' = w.log
       /\ task' = [task EXCEPT ![t] = w.me]
  /\ UNCHANGED <<notifier, rotator, extractor, price, crawl, matcher, config, retry_config, now, budget>>

\* a waiter of the lock in report_error / report_success gets it
ReportGranted(t, draw) ==
  /\ task[t].pc = "rep_wait"
  /\ lock_free(limiter)
  /\ LET w == Run(report_made(World(t, draw))) IN
       /\ limiter' = w.limiter
       /\ semaphore' = w.semaphore
       /\ acqLog' = w.log
       /\ task' = [task EXCEPT ![t] = w.me]
  /\ UNCHANGED <<notifier, rotator, extractor, price, crawl, matcher, config, retry_config, now, budget>>

\* _wait_if_blocked: the sleep is over
AfterBlock(t) ==
  /\ task[t].pc = "acq_blocked"
  /\ now >= task[t].wake
  /\ Resume(t, task[t], "acq_unblock", 0)
  /\ UNCHANGED <<notifier, rotator, extractor, price, crawl, matcher, config, retry_config, now, budget>>

\* _enforce_rate_limits: the sleep is over; _add_request follows without a re-check
AfterLimit(t) ==
  /\ task[t].pc = "acq_limited"
  /\ now >= task[t].wake
  /\ Resume(t, task[t], "acq_add", 0)
  /\ UNCHANGED <<notifier, rotator, extractor, price, crawl, matcher, config, retry_config, now, budget>>

\* _apply_delay: the sleep is over, acquire returns
AfterPacing(t) ==
  /\ task[t].pc = "acq_pacing"
  /\ now >= task[t].wake
  /\ Resume(t, task[t], "acq_exit", 0)
  /\ UNCHANGED <<notifier, rotator, extractor, price, crawl, matcher, config, retry_config, now, budget>>

\* what the network can answer to one GET
NetOutcomes ==
  {[kind |-> "status", status |-> s, cls |-> ""] : s \in {200, 404, 429}}
  \cup {[kind |-> "badbody", status |-> 200, cls |-> "ValueError"],
        [kind |-> "transport", status |-> NoStatus, cls |-> "ClientConnectionError"]}

ErrorReport(status) == [op |-> "error", status |-> status]
SuccessReport == [op |-> "success", status |-> NoStatus]

\* the governor reports _fetch makes for an answer, in order: the report of
\* the status, and report_error() of the except clause when it raises
fetch_reports(r) ==
  CASE r.kind = "transport" -> <<ErrorReport(NoStatus)>>
    [] r.kind = "badbody"   -> <<SuccessReport, ErrorReport(NoStatus)>>
    [] r.status >= 400      -> <<ErrorReport(r.status), ErrorReport(NoStatus)>>
    [] OTHER                -> <<SuccessReport>>

\* what _fetch returns or raises for an answer
fetch_outcome(r) ==
  CASE r.kind = "transport" -> [kind |-> "exc", cls |-> r.cls, status |-> NoStatus]
    [] r.kind = "badbody"   -> [kind |-> "exc", cls |-> r.cls, status |-> NoStatus]
    [] r.status >= 400      -> [kind |-> "exc", cls |-> "ClientResponseError",
                                status |-> r.status]
    [] OTHER                -> [kind |-> "ok", cls |-> "", status |-> r.status]

\* the outcome of attempt k, as the except clause of retry_async sees it
Outcome(o, k) == [kind |-> o.kind, cls |-> o.cls, status |-> o.status, k |-> k]

\* _fetch: the answer (or the transport failure) arrives
Respond(t, r, draw) ==
  /\ task[t].pc = "net"
  /\ fetch_outcome(r).kind = "exc" => budget.faults < MaxFaults
  /\ budget' = IF fetch_outcome(r).kind = "exc"
               THEN [budget EXCEPT !.faults = @ + 1] ELSE budget
  /\ Resume(t, [task[t] EXCEPT
                  !.cont = "retry_handle",
                  !.pending = fetch_reports(r),
                  !.result = Outcome(fetch_outcome(r), task[t].attempt),
                  !.hist = Append(@, Outcome(fetch_outcome(r), task[t].attempt))],
            "report", draw)
  /\ UNCHANGED <<notifier, rotator, extractor, price, crawl, matcher, config, retry_config, now>>

\* retry_async: asyncio.sleep(delay) is over
RetryWake(t) ==
  /\ task[t].pc = "retry_sleep"
  /\ now >= task[t].wake
  /\ Resume(t, task[t], "retry_next", 0)
  /\ UNCHANGED <<notifier, rotator, extractor, price, crawl, matcher, config, retry_config, now, budget>>

\* variant: the CancelledError is caught like an Exception: the except
\* clauses of _fetch and retry_async take it for a failed attempt
Cancel_swallowed(t) ==
  /\ task[t].pc \in {"sem_wait", "acq_wait", "acq_blocked", "acq_limited",
                     "acq_pacing", "net", "rep_wait", "retry_sleep", "page_sleep"}
  /\ budget.faults < MaxFaults
  /\ LET failure == [kind |-> "exc", cls |-> "TimeoutError", status |-> NoStatus]
     IN Resume(t, [task[t] EXCEPT
                     !.slot = TRUE, !.wake = 0,
                     !.result = Outcome(failure, task[t].attempt),
                     !.hist = Append(@, Outcome(failure, task[t].attempt))],
               "retry_handle", 0)
  /\ budget' = [budget EXCEPT !.faults = @ + 1]
  /\ UNCHANGED <<notifier, rotator, extractor, price, crawl, matcher, config, retry_config, now>>

\* the task running the crawl is cancelled while suspended in fetch_page or
\* in the delay between two pages: CancelledError is no Exception, so it
\* passes every except clause and unwinds both `async with` blocks
Cancel(t) ==
  /\ task[t].pc \in {"sem_wait", "acq_wait", "acq_blocked", "acq_limited",
                     "acq_pacing", "net", "rep_wait", "retry_sleep", "page_sleep"}
  /\ budget.faults < MaxFaults
  /\ limiter' = IF limiter.lock = t THEN [limiter EXCEPT !.lock = 0] ELSE limiter
  /\ semaphore' = IF task[t].slot THEN [semaphore EXCEPT !.value = @ + 1] ELSE semaphore
  /\ task' = [task EXCEPT ![t] =
        [@ EXCEPT !.pc = "cancelled", !.slot = FALSE, !.pending = <<>>,
                  !.result = NoResult, !.wake = 0, !.called = 0, !.enter = 0,
                  !.blk = 0, !.seen = 0]]
  /\ budget' = [budget EXCEPT !.faults = @ + 1]
  /\ UNCHANGED <<notifier, rotator, extractor, price, crawl, matcher, config, retry_config, now, acqLog>>

\* parse_all_pages: the page is handled, asyncio.sleep(1) before the next
PageDelay(t) ==
  /\ task[t].pc = "done"
  /\ budget.runs < MaxFetches
  /\ task' = [task EXCEPT ![t] = [@ EXCEPT !.pc = "page_sleep", !.wake = now + SecondWindow]]
  /\ UNCHANGED <<notifier, rotator, extractor, price, crawl, matcher, config, retry_config, semaphore, limiter, now, acqLog, budget>>

\* parse_all_pages: the delay is over, fetch_page is called for the next page
PageDelayOver(t) ==
  /\ task[t].pc = "page_sleep"
  /\ now >= task[t].wake
  /\ budget.runs < MaxFetches
  /\ Resume(t, [task[t] EXCEPT !.wake = 0], "sem_try", 0)
  /\ budget' = [budget EXCEPT !.runs = @ + 1]
  /\ UNCHANGED <<notifier, rotator, extractor, price, crawl, matcher, config, retry_config, now>>

\* a caller runs retry_async(func, config, retryable_exceptions, on_retry);
\* the runs share no state and are made one after the other
RetryStart(t, cb, excs) ==
  /\ task[t].pc \in {"idle", "returned", "raised"}
  /\ \A u \in Tasks : u # t => task[u].pc = "idle"
  /\ StartedBelow(t)
  /\ budget.runs < MaxRuns
  /\ Resume(t, retry_begin([task[t] EXCEPT !.on_retry = cb, !.retryable_exceptions = excs],
                           retry_config),
            IF retry_config.max_attempts >= 1 THEN "retry_call" ELSE "raised", 0)
  /\ budget' = [budget EXCEPT !.runs = @ + 1]
  /\ UNCHANGED <<notifier, rotator, extractor, price, crawl, matcher, config, retry_config, now>>

\* what one invocation of func can do: return, or raise an exception
OpOutcomes ==
  {[kind |-> "ok", cls |-> "", status |-> 200]}
  \cup {[kind |-> "exc", cls |-> "ClientResponseError", status |-> s] : s \in {404, 429}}
  \cup {[kind |-> "exc", cls |-> c, status |-> NoStatus] :
          c \in {"ClientConnectionError", "TimeoutError", "RetryableError",
                 "NonRetryableError", "ValueError"}}

\* func returns or raises
Operation(t, o, draw) ==
  /\ task[t].pc = "op"
  /\ Resume(t, [task[t] EXCEPT
                  !.result = Outcome(o, task[t].attempt),
                  !.hist = Append(@, Outcome(o, task[t].attempt))],
            "retry_handle", draw)
  /\ UNCHANGED <<notifier, rotator, extractor, price, crawl, matcher, config, retry_config, now, budget>>

\* acquire() is called by a coroutine
CallAcquire(t) ==
  /\ task[t].pc = "idle"
  /\ StartedBelow(t)
  /\ budget.calls < budget.limit
  /\ Resume(t, [task[t] EXCEPT !.cont = "idle"], "acq_try", 0)
  /\ budget' = [budget EXCEPT !.calls = @ + 1]
  /\ UNCHANGED <<notifier, rotator, extractor, price, crawl, matcher, config, retry_config, now>>

ReportStatuses == {429, 503, 404, NoStatus}

\* report_error(status) called by a coroutine when no acquire() is in progress
CallReportError(t, status) ==
  /\ task[t].pc = "idle"
  /\ StartedBelow(t)
  /\ budget.calls < budget.limit
  /\ config.adaptive => LockIdle
  /\ Resume(t, [task[t] EXCEPT !.cont = "idle", !.pending = <<ErrorReport(status)>>],
            "report", 0)
  /\ budget' = [budget EXCEPT !.calls = @ + 1]
  /\ UNCHANGED <<notifier, rotator, extractor, price, crawl, matcher, config, retry_config, now>>

\* report_success() called by a coroutine when no acquire() is in progress
CallReportSuccess(t) ==
  /\ task[t].pc = "idle"
  /\ StartedBelow(t)
  /\ budget.calls < budget.limit
  /\ config.adaptive => LockIdle
  /\ Resume(t, [task[t] EXCEPT !.cont = "idle", !.pending = <<SuccessReport>>],
            "report", 0)
  /\ budget' = [budget EXCEPT !.calls = @ + 1]
  /\ UNCHANGED <<notifier, rotator, extractor, price, crawl, matcher, config, retry_config, now>>

\* reset() called by a coroutine when no acquire() is in progress
CallReset(t) ==
  /\ task[t].pc = "idle"
  /\ StartedBelow(t)
  /\ budget.calls < budget.limit
  /\ LockIdle
  /\ task' = task
  /\ limiter' = apply_report(limiter, config, [op |-> "reset", status |-> NoStatus], now)
  /\ budget' = [budget EXCEPT !.calls = @ + 1]
  /\ UNCHANGED <<notifier, rotator, extractor, price, crawl, matcher, config, retry_config, semaphore, now, acqLog>>

\* ------------------------------------------------------------------ time
Sleeping(t) ==
  /\ task[t].pc \in {"acq_blocked", "acq_limited", "acq_pacing", "retry_sleep",
                     "page_sleep"}
  /\ task[t].wake > now

\* the clock reaches the earliest pending wake-up time
WakeNext ==
  /\ \E t \in Tasks :
       /\ Sleeping(t)
       /\ \A u \in Tasks : Sleeping(u) => task[t].wake <= task[u].wake
       /\ now' = task[t].wake
  /\ UNCHANGED <<notifier, rotator, extractor, price, crawl, matcher, config, retry_config, semaphore, limiter, task, acqLog, budget>>

ElapseSteps == {SecondWindow}

\* time passes: a late wake-up, or a caller that idles
Elapse(d) ==
  /\ budget.elapse < MaxElapse
  /\ now' = now + d
  /\ budget' = [budget EXCEPT !.elapse = @ + 1]
  /\ UNCHANGED <<notifier, rotator, extractor, price, crawl, matcher, config, retry_config, semaphore, limiter, task, acqLog>>

\* ------------------------------------------------------ pagination walker
\* the external_id values of the site's listings
Ids == {1, 2}

\* what parse_projects_from_page extracts from one page: the external_id of
\* each project, in page order
Listings == {<<>>, <<1>>, <<2>>, <<1, 1>>, <<1, 2>>, <<2, 1>>}

\* max_pages: None, or a number
PageLimits ==
  {[given |-> FALSE, n |-> 0]} \cup {[given |-> TRUE, n |-> k] : k \in 0..2}

\* a generator object of parse_all_pages(max_pages, project_repository) before
\* its first step; known is what exists_project answers True for; requested,
\* pages and yielded record the pages asked, what parse_single_page met for
\* each, and the batches given to the consumer
NewCrawl(limit, has_repo, known) ==
  [ pc |-> "created", max_pages |-> limit, has_repo |-> has_repo, known |-> known,
    current_page |-> 1, has_next |-> FALSE, total_projects_found |-> 0,
    requested |-> <<>>, outstanding |-> 0, pages |-> <<>>, yielded |-> <<>>,
    failed_page |-> 0, raised |-> FALSE,
    stats |-> [pages_parsed |-> 0, projects_found |-> 0, projects_new |-> 0,
               errors |-> 0] ]

\* no walk is made
NoCrawl == NewCrawl([given |-> FALSE, n |-> 0], FALSE, {})

\* the walks: without a repository, or with one that knows some listings
Crawls ==
  {NewCrawl(l, FALSE, {}) : l \in PageLimits}
  \cup {NewCrawl(l, TRUE, k) : l \in PageLimits, k \in SUBSET Ids}

\* what one parse_single_page call can meet: the fetch (or the processing of
\* the page) fails after fetch_errors errors counted by fetch_page, or the page
\* is parsed; lookup_fails = 1 makes the query of the last exists_project call
\* of the page fail
PageOutcomes ==
  {[ok |-> FALSE, projects |-> <<>>, has_next |-> FALSE, fetch_errors |-> e,
    lookup_fails |-> 0] : e \in 0..2}
  \cup {[ok |-> TRUE, projects |-> ps, has_next |-> h, fetch_errors |-> 0,
         lookup_fails |-> i] : ps \in Listings, h \in BOOLEAN, i \in 0..1}

\* `if max_pages and current_page > max_pages`
limit_reached(c) ==
  c.max_pages.given /\ c.max_pages.n # 0 /\ c.current_page > c.max_pages.n

\* variant: the loop asks for the page after the current one
loop_head_skips(c) ==
  IF limit_reached(c)
  THEN [c EXCEPT !.pc = "done"]
  ELSE [c EXCEPT !.pc = "fetching", !.requested = Append(@, c.current_page + 1),
                 !.outstanding = @ + 1]

\* the head of the `while True` loop: the walk ends, or the next page is asked
loop_head(c) ==
  IF limit_reached(c)
  THEN [c EXCEPT !.pc = "done"]
  ELSE [c EXCEPT !.pc = "fetching", !.requested = Append(@, c.current_page),
                 !.outstanding = @ + 1]

\* variant: a failed page is not counted as an error
single_page_stats_silent(st, o) ==
  IF o.ok
  THEN [st EXCEPT !.pages_parsed = @ + 1, !.projects_found = @ + Len(o.projects)]
  ELSE st

\* parse_single_page: stats after the page, and what it returns
single_page_stats(st, o) ==
  IF o.ok
  THEN [st EXCEPT !.pages_parsed = @ + 1, !.projects_found = @ + Len(o.projects)]
  ELSE [st EXCEPT !.errors = @ + o.fetch_errors + 1]

\* ProjectRepository.exists_project: a failed query is logged and answered
\* False
exists_project(external_id, known, query_ok) ==
  query_ok /\ external_id \in known

RECURSIVE filter_duplicates(_, _, _)
\* the projects for which exists_project answers False, in order; the queries
\* of the last `fails` lookups fail
filter_duplicates(projects, known, fails) ==
  IF projects = <<>> THEN <<>>
  ELSE IF exists_project(Head(projects), known, Len(projects) > fails)
  THEN filter_duplicates(Tail(projects), known, fails)
  ELSE <<Head(projects)>> \o filter_duplicates(Tail(projects), known, fails)

\* the body of the loop after parse_single_page returned, up to the yield or
\* a break
page_processed(c, o) ==
  LET projects == IF o.ok THEN o.projects ELSE <<>>
      got == [c EXCEPT !.outstanding = @ - 1,
                       !.pages = Append(@, o),
                       !.stats = single_page_stats(c.stats, o),
                       !.has_next = o.ok /\ o.has_next,
                       !.failed_page = IF o.ok THEN @ ELSE c.current_page]
      filtered == IF c.has_repo
                  THEN filter_duplicates(projects, c.known, o.lookup_fails)
                  ELSE projects
      counted == IF c.has_repo
                 THEN [got EXCEPT !.stats.projects_new = @ + Len(filtered)]
                 ELSE got
  IN IF projects = <<>> /\ c.current_page = 1
     THEN [got EXCEPT !.pc = "done"]
     ELSE [counted EXCEPT !.pc = "yielded",
                          !.total_projects_found = @ + Len(filtered),
                          !.yielded = Append(@, [page |-> c.current_page,
                                                 projects |-> filtered])]

\* the consumer asks for the first batch: the generator starts
CrawlStart ==
  /\ crawl.pc = "created"
  /\ crawl' = loop_head(crawl)
  /\ UNCHANGED <<notifier, rotator, extractor, price, matcher, config, retry_config, semaphore, limiter, task, now, acqLog, budget>>

\* parse_single_page(current_page) returns; a query can fail only where a
\* lookup is made
PageParsed(o) ==
  /\ crawl.pc = "fetching"
  /\ o.lookup_fails > 0 => (crawl.has_repo /\ o.projects # <<>>)
  /\ crawl' = page_processed(crawl, o)
  /\ UNCHANGED <<notifier, rotator, extractor, price, matcher, config, retry_config, semaphore, limiter, task, now, acqLog, budget>>

\* variant: the walk goes on whatever has_next says
CrawlResumed_ignores_has_next(saved) ==
  /\ crawl.pc = "yielded"
  /\ saved => crawl.has_repo
  /\ crawl' = [crawl EXCEPT !.current_page = @ + 1, !.pc = "sleeping"]
  /\ UNCHANGED <<notifier, rotator, extractor, price, matcher, config, retry_config, semaphore, limiter, task, now, acqLog, budget>>

\* the consumer, having got a batch, asks for the next one; before that it
\* may have saved the batch to the repository
CrawlResumed(saved) ==
  /\ crawl.pc = "yielded"
  /\ saved => crawl.has_repo
  /\ LET c == IF saved
              THEN [crawl EXCEPT !.known = @ \cup
                      {crawl.yielded[Len(crawl.yielded)].projects[i] :
                         i \in 1..Len(crawl.yielded[Len(crawl.yielded)].projects)}]
              ELSE crawl
     IN crawl' = IF ~c.has_next
                 THEN [c EXCEPT !.pc = "done"]
                 ELSE [c EXCEPT !.current_page = @ + 1, !.pc = "sleeping"]
  /\ UNCHANGED <<notifier, rotator, extractor, price, matcher, config, retry_config, semaphore, limiter, task, now, acqLog, budget>>

\* asyncio.sleep(1) between two pages is over
CrawlSleepOver ==
  /\ crawl.pc = "sleeping"
  /\ Len(crawl.requested) < MaxPagesAsked
  /\ crawl' = loop_head(crawl)
  /\ UNCHANGED <<notifier, rotator, extractor, price, matcher, config, retry_config, semaphore, limiter, task, now, acqLog, budget>>

\* ------------------------------------------------------ selector resolver
\* field names: one with a primary and a fallback expression, one with a
\* primary expression only, one with no expression
Fields == {"project_card", "description_short", "reviews"}

\* KworkSelectors, restricted to Fields
KworkSelectors ==
  [project_card |-> ".want-card",
   description_short |-> ".wants-card__description-text p"]

\* KworkSelectorsAlt, restricted to Fields
KworkSelectorsAlt == [project_card |-> "[data-want-id]"]

\* Python's None as the result of test_selector; also stands for the
\* ValueError of get_selector
NoSelector == "None"

Expressions ==
  {KworkSelectors[f] : f \in DOMAIN KworkSelectors}
  \cup {KworkSelectorsAlt[f] : f \in DOMAIN KworkSelectorsAlt}

\* id(soup): the addresses a document object can be allocated at
Addrs == 1..NumAddrs

\* a parsed document: its address, and the expressions for which
\* soup.select returns at least one element
Soups == [id : Addrs, matches : SUBSET Expressions]

\* SelectorMatcher.get_selector
get_selector(field_name, use_fallback) ==
  LET selectors == IF use_fallback THEN KworkSelectorsAlt ELSE KworkSelectors
  IN IF field_name \in DOMAIN selectors THEN selectors[field_name] ELSE NoSelector

\* SelectorMatcher.get_all_selectors
get_all_selectors(field_name) ==
  LET primary_selector == get_selector(field_name, FALSE)
      fallback_selector == get_selector(field_name, TRUE)
      selectors == IF primary_selector # NoSelector THEN <<primary_selector>> ELSE <<>>
  IN IF fallback_selector # NoSelector /\ fallback_selector # primary_selector
     THEN Append(selectors, fallback_selector)
     ELSE selectors

RECURSIVE first_working(_, _)
\* the loop of test_selector: the first selector with elements, or None
first_working(selectors, soup) ==
  IF selectors = <<>> THEN NoSelector
  ELSE IF Head(selectors) \in soup.matches THEN Head(selectors)
  ELSE first_working(Tail(selectors), soup)

RECURSIVE selects_made(_, _)
\* the number of soup.select calls the loop of test_selector makes
selects_made(selectors, soup) ==
  IF selectors = <<>> THEN 0
  ELSE IF Head(selectors) \in soup.matches THEN 1
  ELSE 1 + selects_made(Tail(selectors), soup)

\* the key f"{field_name}_{id(soup)}"
cache_key(field_name, soup) == <<field_name, soup.id>>

\* SelectorMatcher.test_selector: what it returns and the cache it leaves
test_selector(cached, soup, field_name) ==
  LET key == cache_key(field_name, soup)
      found == first_working(get_all_selectors(field_name), soup)
      selects == selects_made(get_all_selectors(field_name), soup)
  IN IF cached[key] # NoSelector
     THEN [returned |-> cached[key], cached |-> cached, selects |-> 0]
     ELSE IF found # NoSelector
     THEN [returned |-> found, cached |-> [cached EXCEPT ![key] = found],
           selects |-> selects]
     ELSE [returned |-> NoSelector, cached |-> cached, selects |-> selects]

\* KworkParser._get_working_selector: the parser's own cache in front of
\* test_selector; what it returns and the two caches it leaves
get_working_selector(m, soup, field_name) ==
  LET key == cache_key(field_name, soup)
      r == test_selector(m._cached_selectors, soup, field_name)
  IN IF m._selector_cache[key] # NoSelector
     THEN [returned |-> m._selector_cache[key], cached |-> m._cached_selectors,
           selector_cache |-> m._selector_cache, selects |-> 0]
     ELSE [returned |-> r.returned, cached |-> r.cached,
           selector_cache |-> IF r.returned # NoSelector
                              THEN [m._selector_cache EXCEPT ![key] = r.returned]
                              ELSE m._selector_cache,
           selects |-> r.selects]

\* no call was made yet for the field on the live document
Unasked == "unasked"

\* a SelectorMatcher and a KworkParser with empty caches, the document being
\* parsed, the last call made on it (with the number of soup.select calls it
\* made), and the first answer given for each field of this document
NewMatcher(soup) ==
  [ _cached_selectors |-> [k \in Fields \X Addrs |-> NoSelector],
    _selector_cache |-> [k \in Fields \X Addrs |-> NoSelector],
    soup |-> soup, soups |-> 1,
    called |-> FALSE, field_name |-> "project_card", returned |-> NoSelector,
    selects |-> 0, first |-> [f \in Fields |-> Unasked] ]

\* no document is resolved
NoMatcher == NewMatcher([id |-> 1, matches |-> {}])

Matchers == {NewMatcher(soup) : soup \in Soups}

\* selector_matcher.test_selector(soup, field_name) on the live document
CallTestSelector(field_name) ==
  /\ LET r == test_selector(matcher._cached_selectors, matcher.soup, field_name)
     IN matcher' = [matcher EXCEPT !._cached_selectors = r.cached,
                                   !.called = TRUE,
                                   !.field_name = field_name,
                                   !.returned = r.returned,
                                   !.selects = r.selects,
                                   !.first[field_name] =
                                      IF @ = Unasked THEN r.returned ELSE @]
  /\ UNCHANGED <<notifier, rotator, extractor, price, crawl, config, retry_config, semaphore, limiter, task, now, acqLog, budget>>

\* parser._get_working_selector(soup, field_name) on the live document
CallGetWorkingSelector(field_name) ==
  /\ LET r == get_working_selector(matcher, matcher.soup, field_name)
     IN matcher' = [matcher EXCEPT !._cached_selectors = r.cached,
                                   !._selector_cache = r.selector_cache,
                                   !.called = TRUE,
                                   !.field_name = field_name,
                                   !.returned = r.returned,
                                   !.selects = r.selects,
                                   !.first[field_name] =
                                      IF @ = Unasked THEN r.returned ELSE @]
  /\ UNCHANGED <<notifier, rotator, extractor, price, crawl, config, retry_config, semaphore, limiter, task, now, acqLog, budget>>

\* the document is dropped and the next page is parsed into a new object,
\* at any address, that of the dropped object included
NewSoup(soup) ==
  /\ matcher.soups < MaxSoups
  /\ matcher' = [matcher EXCEPT !.soup = soup, !.soups = @ + 1, !.called = FALSE,
                                !.field_name = "project_card",
                                !.returned = NoSelector, !.selects = 0,
                                !.first = [f \in Fields |-> Unasked]]
  /\ UNCHANGED <<notifier, rotator, extractor, price, crawl, config, retry_config, semaphore, limiter, task, now, acqLog, budget>>

\* -------------------------------------------------------- identity rotator
\* a User-Agent string, by what it names: browser, operating system (with
\* the platform token that tells two strings apart), browser version, and
\* whether it is a phone or tablet
Agent(browser, os, platform, version, mobile) ==
  [browser |-> browser, os |-> os, platform |-> platform, version |-> version,
   mobile |-> mobile]

DESKTOP_CHROME_AGENTS ==
  << Agent("Chrome", "Windows", "Windows NT 10.0", 120, FALSE),
     Agent("Chrome", "Windows", "Windows NT 10.0", 119, FALSE),
     Agent("Chrome", "Windows", "Windows NT 10.0", 118, FALSE),
     Agent("Chrome", "macOS", "Macintosh", 120, FALSE),
     Agent("Chrome", "macOS", "Macintosh", 119, FALSE),
     Agent("Chrome", "Linux", "X11; Linux", 120, FALSE),
     Agent("Chrome", "Linux", "X11; Linux", 119, FALSE),
     Agent("Chrome", "Windows", "Windows NT 11.0", 120, FALSE) >>

DESKTOP_FIREFOX_AGENTS ==
  << Agent("Firefox", "Windows", "Windows NT 10.0", 121, FALSE),
     Agent("Firefox", "Windows", "Windows NT 10.0", 120, FALSE),
     Agent("Firefox", "macOS", "Macintosh", 121, FALSE),
     Agent("Firefox", "macOS", "Macintosh", 120, FALSE),
     Agent("Firefox", "Linux", "X11; Linux", 121, FALSE),
     Agent("Firefox", "Linux", "X11; Ubuntu; Linux", 121, FALSE) >>

\* Safari versions 17.2, 17.1, 16.6 in tenths
DESKTOP_SAFARI_AGENTS ==
  << Agent("Safari", "macOS", "Macintosh", 172, FALSE),
     Agent("Safari", "macOS", "Macintosh", 171, FALSE),
     Agent("Safari", "macOS", "Macintosh", 166, FALSE) >>

DESKTOP_EDGE_AGENTS ==
  << Agent("Edge", "Windows", "Windows NT 10.0", 120, FALSE),
     Agent("Edge", "Windows", "Windows NT 10.0", 119, FALSE),
     Agent("Edge", "macOS", "Macintosh", 120, FALSE) >>

MOBILE_AGENTS ==
  << Agent("Safari", "iOS", "iPhone", 172, TRUE),
     Agent("Safari", "iOS", "iPhone", 171, TRUE),
     Agent("Chrome", "Android", "Linux; Android 14", 120, TRUE),
     Agent("Chrome", "Android", "Linux; Android 13", 119, TRUE),
     Agent("Safari", "iOS", "iPad", 172, TRUE) >>

\* `'Chrome' in user_agent`: the Chrome strings and the Edge strings hold the
\* token Chrome/<version>
contains_chrome(agent) == agent.browser \in {"Chrome", "Edge"}

\* UserAgentConfig values: a random rotation over the Chrome pool, and
\* sequential rotations over the standard and the diverse pool
UserAgentConfigs ==
  { [rotation_interval |-> 2, random_rotation |-> TRUE, prefer_chrome |-> TRUE,
     prefer_desktop |-> FALSE, include_mobile |-> FALSE] }
  \cup { [rotation_interval |-> n, random_rotation |-> FALSE, prefer_chrome |-> c,
          prefer_desktop |-> TRUE, include_mobile |-> ~c] : n \in {1, 3}, c \in BOOLEAN }

\* UserAgentRotator._build_agents_pool
build_agents_pool(cfg) ==
  LET chrome == IF cfg.prefer_chrome \/ ~cfg.prefer_desktop
                THEN DESKTOP_CHROME_AGENTS \o DESKTOP_CHROME_AGENTS ELSE <<>>
      desktop == IF cfg.prefer_desktop
                 THEN DESKTOP_FIREFOX_AGENTS \o DESKTOP_SAFARI_AGENTS \o DESKTOP_EDGE_AGENTS
                 ELSE <<>>
      mobile == IF cfg.include_mobile THEN MOBILE_AGENTS ELSE <<>>
      pool == chrome \o desktop \o mobile
  IN IF pool = <<>> THEN DESKTOP_CHROME_AGENTS ELSE pool

\* current_agent = None
NoAgent == Agent("None", "None", "None", 0, FALSE)

\* the headers without sec-ch-ua fields
PlainHeaders(agent) ==
  [user_agent |-> agent, sec_ch_ua |-> FALSE, brand |-> "None", version |-> 0,
   mobile |-> FALSE, platform |-> "None"]

\* no get_headers call was made
NoHeaders == PlainHeaders(NoAgent)

\* UserAgentRotator.__init__; streak counts the calls in a row that returned
\* current_agent, headers is what the last call returned if it was get_headers
NewRotator(cfg) ==
  [ config |-> cfg, current_agent |-> NoAgent, request_count |-> 0,
    agents_pool |-> build_agents_pool(cfg), used_agents |-> <<>>,
    rotations |-> 0, streak |-> 0, headers |-> NoHeaders ]

\* no rotator is used
NoRotator ==
  NewRotator([rotation_interval |-> 1, random_rotation |-> FALSE, prefer_chrome |-> TRUE,
              prefer_desktop |-> FALSE, include_mobile |-> FALSE])

\* the last n elements of a sequence: seq[-n:]
LastN(seq, n) == SubSeq(seq, Max(Len(seq) - n, 0) + 1, Len(seq))

\* the elements of a sequence
Range(seq) == {seq[i] : i \in 1..Len(seq)}

\* list.index(x): the position of the first occurrence
index(seq, x) == CHOOSE i \in 1..Len(seq) : seq[i] = x /\ \A j \in 1..(i - 1) : seq[j] # x

\* variant: the random choice is made in the whole pool
rotation_choices_any(r) == Range(r.agents_pool)

\* _rotate_agent: the agents the rotation can select
rotation_choices(r) ==
  IF r.config.random_rotation
  THEN LET available_agents ==
             Range(r.agents_pool) \ Range(LastN(r.used_agents, 5))
       IN IF available_agents = {} THEN Range(r.agents_pool) ELSE available_agents
  ELSE LET current_index == IF r.current_agent \in Range(r.agents_pool)
                            THEN index(r.agents_pool, r.current_agent) - 1
                            ELSE 0
           next_index == (current_index + 1) % Len(r.agents_pool)
       IN {r.agents_pool[next_index + 1]}

\* UserAgentRotator._rotate_agent selecting agent
rotate_agent(r, agent) ==
  [r EXCEPT !.current_agent = agent,
            !.request_count = 0,
            !.used_agents = LastN(Append(@, agent), 20),
            !.rotations = @ + 1,
            !.streak = 0]

\* variant: the rotation comes one call late
rotation_due_late(r) ==
  r.current_agent = NoAgent \/ r.request_count > r.config.rotation_interval

\* the test at the head of get_user_agent
rotation_due(r) ==
  r.current_agent = NoAgent \/ r.request_count >= r.config.rotation_interval

\* UserAgentRotator.get_user_agent, with agent the choice of a rotation
get_user_agent(r, agent) ==
  LET a == IF rotation_due(r) THEN rotate_agent(r, agent) ELSE r
  IN [a EXCEPT !.request_count = @ + 1, !.streak = @ + 1, !.headers = NoHeaders]

\* UserAgentRotator.get_headers: the User-Agent and, under
\* `if 'Chrome' in headers['User-Agent']`, the fields sec-ch-ua
\* ('"Google Chrome";v="120"'), sec-ch-ua-mobile ('?0') and
\* sec-ch-ua-platform ('"Windows"')
get_headers(agent) ==
  IF contains_chrome(agent)
  THEN [user_agent |-> agent, sec_ch_ua |-> TRUE, brand |-> "Google Chrome",
        version |-> 120, mobile |-> FALSE, platform |-> "Windows"]
  ELSE PlainHeaders(agent)

\* the rotations explored are bounded
\* the rotations a rotator is followed for: a sequential one, whose next
\* fingerprint is determined, for more than a random one
RotationBudget(r) == IF r.config.random_rotation THEN MaxRotations ELSE MaxWalk

MayCall(r) == rotation_due(r) => r.rotations < RotationBudget(r)

\* rotator.get_user_agent()
CallGetUserAgent ==
  /\ MayCall(rotator)
  /\ \E agent \in rotation_choices(rotator) :
       rotator' = get_user_agent(rotator, agent)
  /\ UNCHANGED <<notifier, crawl, matcher, extractor, price, config, retry_config, semaphore, limiter, task, now, acqLog, budget>>

\* rotator.get_headers(), as fetch_page calls it
CallGetHeaders ==
  /\ MayCall(rotator)
  /\ \E agent \in rotation_choices(rotator) :
       LET r == get_user_agent(rotator, agent)
       IN rotator' = [r EXCEPT !.headers = get_headers(r.current_agent)]
  /\ UNCHANGED <<notifier, crawl, matcher, extractor, price, config, retry_config, semaphore, limiter, task, now, acqLog, budget>>

\* rotator.force_rotate()
CallForceRotate ==
  /\ rotator.rotations < RotationBudget(rotator)
  /\ LET r == [rotator EXCEPT !.request_count = rotator.config.rotation_interval]
     IN \E agent \in rotation_choices(r) :
          rotator' = get_user_agent(r, agent)
  /\ UNCHANGED <<notifier, crawl, matcher, extractor, price, config, retry_config, semaphore, limiter, task, now, acqLog, budget>>

\* -------------------------------------------------------- field extractor
\* the absolute link of a title element: no href, a link with a numeric
\* segment (/projects/7), a link without one
Links == {"none", "https://kwork.ru/projects/7", "https://kwork.ru/projects/landing"}

\* a project card as extract_project_data sees it: the data-want-id
\* attribute (0: absent or empty), whether the title selector finds an
\* element, the link of that element, and whether Project(...) rejects the
\* extracted fields (a ValidationError, e.g. for an empty title text)
Cards == [want_id : {0, 5}, title : BOOLEAN, link : Links, invalid : BOOLEAN]

\* PYTHONHASHSEED of a process: hash() of a str differs between processes
HashSeeds == {1, 2}

\* str(hash(project_link)) in a process with the given seed
hash(project_link, seed) ==
  seed * 1000 + (IF project_link = "https://kwork.ru/projects/7" THEN 1 ELSE 2)

\* re.search(r'/(\d+)', project_link): the number found, 0 for no match
link_match(project_link) ==
  IF project_link = "https://kwork.ru/projects/7" THEN 7 ELSE 0

\* the external_id extract_project_data assigns
external_id_of(card, seed) ==
  IF card.want_id # 0 THEN card.want_id
  ELSE IF link_match(card.link) # 0 THEN link_match(card.link)
  ELSE hash(card.link, seed)

\* variant: extract_project_data without its try/except
extract_project_data_raising(card, seed) ==
  IF ~card.title \/ card.link = "none" THEN [kind |-> "none"]
  ELSE IF card.invalid THEN [kind |-> "raised"]
  ELSE [kind |-> "project", external_id |-> external_id_of(card, seed),
        link |-> card.link]

\* KworkParser.extract_project_data: a project, or None
extract_project_data(card, seed) ==
  IF ~card.title \/ card.link = "none" \/ card.invalid THEN [kind |-> "none"]
  ELSE [kind |-> "project", external_id |-> external_id_of(card, seed),
        link |-> card.link]

RECURSIVE extract_cards(_, _)
\* the loop of parse_projects_from_page over the cards: the projects
\* appended, or "raised" when an extraction raises
extract_cards(cards, seed) ==
  IF cards = <<>> THEN <<>>
  ELSE LET project == extract_project_data(Head(cards), seed)
           rest == extract_cards(Tail(cards), seed)
       IN IF project.kind = "raised" \/ rest = "raised" THEN "raised"
          ELSE IF project.kind = "project" THEN <<project>> \o rest
          ELSE rest

\* KworkParser.parse_projects_from_page: an exception is logged and gives []
parse_projects_from_page(cards, seed) ==
  LET projects == extract_cards(cards, seed)
  IN IF projects = "raised" THEN <<>> ELSE projects

\* the pages: up to MaxCards project cards
CardPages == UNION {[1..n -> Cards] : n \in 0..MaxCards}

\* a process (with its hash seed) that has parsed nothing; earlier is the batch
\* an earlier process got from the same page
NewExtractor(seed) ==
  [seed |-> seed, processes |-> 1, parsed |-> FALSE, page |-> <<>>,
   batch |-> <<>>, earlier |-> <<>>]

\* no page is extracted
NoExtractor == NewExtractor(1)

\* parser.parse_projects_from_page(html, page_url) on a page with these cards
ParsePage(cards) ==
  /\ ~extractor.parsed
  /\ extractor' = [extractor EXCEPT !.parsed = TRUE, !.page = cards,
                     !.batch = parse_projects_from_page(cards, extractor.seed)]
  /\ UNCHANGED <<notifier, crawl, matcher, rotator, price, config, retry_config, semaphore, limiter, task, now, acqLog, budget>>

\* the program is started again and parses the same page
ParseAgain(seed) ==
  /\ extractor.parsed
  /\ extractor.processes < MaxProcesses
  /\ extractor' = [extractor EXCEPT !.seed = seed, !.processes = @ + 1,
                     !.earlier = extractor.batch,
                     !.batch = parse_projects_from_page(extractor.page, seed)]
  /\ UNCHANGED <<notifier, crawl, matcher, rotator, price, config, retry_config, semaphore, limiter, task, now, acqLog, budget>>

\* ------------------------------------------------------------ price parser
\* price_text in pieces: a run of digits, a space, a dot, a word that is no
\* keyword, a negotiable keyword, an hour unit, a range marker
PriceTokens == {"1500", " ", ".", "rub", "negotiable", "hour", "to"}

PriceTexts == UNION {[1..n -> PriceTokens] : n \in 0..MaxPriceLen}

\* the characters of the class [\d\s,\.]
NumberChars == {"1500", " ", "."}

\* str.strip(): without the spaces at both ends
strip(text) ==
  LET inked == {i \in 1..Len(text) : text[i] # " "}
  IN IF inked = {} THEN <<>>
     ELSE SubSeq(text, CHOOSE i \in inked : \A j \in inked : i <= j,
                       CHOOSE i \in inked : \A j \in inked : i >= j)

\* re.search(r'[\d\s,\.]+', text).group(): the first longest run of
\* characters of the class, <<>> for no match
price_match(text) ==
  LET starts == {i \in 1..Len(text) : text[i] \in NumberChars}
  IN IF starts = {} THEN <<>>
     ELSE LET first == CHOOSE i \in starts : \A j \in starts : i <= j
              ends == {j \in first..Len(text) : \A k \in first..j : text[k] \in NumberChars}
          IN SubSeq(text, first, CHOOSE j \in ends : \A k \in ends : j >= k)

\* price_match.group().replace(' ', '')
without_spaces(run) == SelectSeq(run, LAMBDA c : c # " ")

\* float(price_str) raises ValueError unless the string has a digit and at
\* most one dot
is_float(price_str) ==
  /\ \E i \in 1..Len(price_str) : price_str[i] = "1500"
  /\ Cardinality({i \in 1..Len(price_str) : price_str[i] = "."}) <= 1

\* the value of float(price_str), written as its digits and dot ("1500." is
\* 1500)
float(price_str) ==
  IF price_str[Len(price_str)] = "." THEN SubSeq(price_str, 1, Len(price_str) - 1)
  ELSE price_str

\* (None, PriceType.NEGOTIABLE)
Negotiable == [price |-> <<>>, price_type |-> "negotiable"]

\* KworkParser._parse_price
parse_price(price_text) ==
  LET text == strip(price_text)
      has(token) == \E i \in 1..Len(text) : text[i] = token
      price_str == without_spaces(price_match(text))
  IN IF price_text = <<>> THEN Negotiable
     ELSE IF has("negotiable") THEN Negotiable
     ELSE IF price_match(text) = <<>> THEN Negotiable
     ELSE IF ~is_float(price_str) THEN Negotiable
     ELSE [price |-> float(price_str),
           price_type |-> IF has("hour") THEN "hourly"
                          ELSE IF has("to") THEN "range"
                          ELSE "fixed"]

\* a _parse_price call to be made on price_text
NewPrice(price_text) == [text |-> price_text, called |-> FALSE, result |-> Negotiable]

\* no price is parsed
NoPrice == NewPrice(<<>>)

\* parser._parse_price(price_text)
CallParsePrice ==
  /\ ~price.called
  /\ price' = [price EXCEPT !.called = TRUE, !.result = parse_price(price.text)]
  /\ UNCHANGED <<notifier, crawl, matcher, rotator, extractor, config, retry_config, semaphore, limiter, task, now, acqLog, budget>>

\* ------------------------------------------------------- telegram notifier
\* TelegramNotifier.max_projects_per_message
max_projects_per_message == 5

\* a TelegramNotifier and one chat: _pending_projects[chat] (pending), the
\* delayed_send task in _pending_tasks[chat] (timer: "none" for no entry,
\* "sleeping", "done"), the _send_grouped_projects calls in progress (sends),
\* close() waiting for its flush (closing, awaited), and, for the record, the
\* number of projects queued so far (they are numbered 1, 2, ...), the
\* batches given to bot.send_message (attempted), the batches whose task
\* ended with CancelledError (cancelled), the projects close() cleared
\* (cleared), stats["total_projects_sent"]
NoNotifier ==
  [pending |-> <<>>, timer |-> "none", sends |-> {}, closing |-> FALSE,
   awaited |-> <<>>, closed |-> FALSE, queued |-> 0, attempted |-> {},
   cancelled |-> {}, cleared |-> {}, total_projects_sent |-> 0]

\* TelegramNotifier._send_grouped_projects up to its await of
\* _send_message_with_retry, run by the task `by` ("caller", "timer",
\* "flush"): the queue is taken and emptied, and the task registered in
\* _pending_tasks is cancelled and removed. The delayed_send task is itself
\* the registered task: its cancel() takes effect at its next suspension
\* (must_cancel).
send_grouped_projects(n, by) ==
  IF n.pending = <<>>
  THEN [n EXCEPT !.timer = IF by = "timer" THEN "done" ELSE @]
  ELSE [n EXCEPT !.pending = <<>>,
                 !.timer = "none",
                 !.sends = @ \cup {[projects |-> n.pending, by |-> by,
                                    must_cancel |-> by = "timer" /\ n.timer # "none",
                                    stage |-> "acquire"]}]

\* TelegramNotifier._schedule_group_send: the task registered is cancelled
\* and a new delayed_send task is registered
schedule_group_send(n) == [n EXCEPT !.timer = "sleeping"]

\* TelegramNotifier._add_to_group(project, chat)
add_to_group(n, project) ==
  LET added == [n EXCEPT !.pending = Append(@, project)]
  IN IF Len(added.pending) >= max_projects_per_message
     THEN send_grouped_projects(added, "caller")
     ELSE schedule_group_send(added)

\* notifier.send_project_notification(project, chat, use_grouping=True)
SendProjectNotification ==
  /\ notifier.queued < MaxProjects
  /\ notifier' = add_to_group([notifier EXCEPT !.queued = @ + 1], notifier.queued + 1)
  /\ UNCHANGED <<crawl, matcher, rotator, extractor, price, config, retry_config, semaphore, limiter, task, now, acqLog, budget>>

\* delayed_send: asyncio.sleep(group_timeout) is over and the task was not
\* cancelled in between
GroupTimeout ==
  /\ notifier.timer = "sleeping"
  /\ notifier' = send_grouped_projects(notifier, "timer")
  /\ UNCHANGED <<crawl, matcher, rotator, extractor, price, config, retry_config, semaphore, limiter, task, now, acqLog, budget>>

\* _send_message_with_retry -> retry_async -> _send: rate_limiter.acquire()
\* suspends in _apply_delay (current_delay >= min_delay = 0.05). A task with
\* a cancellation requested gets CancelledError there, which no `except
\* Exception` on the way catches; any other task goes on to
\* bot.send_message.
AcquireOver(send) ==
  /\ send \in notifier.sends
  /\ send.stage = "acquire"
  /\ notifier' =
       IF send.must_cancel
       THEN [notifier EXCEPT !.sends = @ \ {send},
                             !.cancelled = @ \cup {send.projects}]
       ELSE [notifier EXCEPT !.sends = (@ \ {send}) \cup {[send EXCEPT !.stage = "network"]},
                             !.attempted = @ \cup {send.projects}]
  /\ UNCHANGED <<crawl, matcher, rotator, extractor, price, config, retry_config, semaphore, limiter, task, now, acqLog, budget>>

\* _send_message_with_retry returns success to _send_grouped_projects
SendOver(send, success) ==
  /\ send \in notifier.sends
  /\ send.stage = "network"
  /\ notifier' = [notifier EXCEPT
                    !.sends = @ \ {send},
                    !.total_projects_sent = IF success THEN @ + Len(send.projects) ELSE @]
  /\ UNCHANGED <<crawl, matcher, rotator, extractor, price, config, retry_config, semaphore, limiter, task, now, acqLog, budget>>

\* notifier.flush_pending_groups() with a non-empty queue: a task that runs
\* _send_grouped_projects
FlushPendingGroups ==
  /\ notifier.pending # <<>>
  /\ ~notifier.closing
  /\ notifier' = send_grouped_projects(notifier, "flush")
  /\ UNCHANGED <<crawl, matcher, rotator, extractor, price, config, retry_config, semaphore, limiter, task, now, acqLog, budget>>

\* close() after its flush_pending_groups(): the tasks are cancelled, both
\* dictionaries are cleared
close_clear(n) ==
  [n EXCEPT !.timer = "none", !.pending = <<>>, !.closing = FALSE,
            !.awaited = <<>>, !.closed = TRUE,
            !.cleared = @ \cup Range(n.pending)]

\* notifier.close(): with an empty queue it runs to its end, otherwise it
\* waits for the task of its flush
CallClose ==
  /\ ~notifier.closing
  /\ ~notifier.closed
  /\ notifier' =
       IF notifier.pending = <<>> THEN close_clear(notifier)
       ELSE [send_grouped_projects(notifier, "flush") EXCEPT
               !.closing = TRUE, !.awaited = notifier.pending]
  /\ UNCHANGED <<crawl, matcher, rotator, extractor, price, config, retry_config, semaphore, limiter, task, now, acqLog, budget>>

\* close(): asyncio.gather of the flush has returned
CloseResumed ==
  /\ notifier.closing
  /\ \A send \in notifier.sends : send.projects # notifier.awaited
  /\ notifier' = close_clear(notifier)
  /\ UNCHANGED <<crawl, matcher, rotator, extractor, price, config, retry_config, semaphore, limiter, task, now, acqLog, budget>>

\* -------------------------------------------------------- specifications
InitParts(rate_configs, retry_configs, sizes, calls, crawls) ==
  /\ config \in rate_configs
  /\ retry_config \in retry_configs
  /\ \E n \in sizes : semaphore = [size |-> n, value |-> n]
  /\ limiter = NewLimiter(config)
  /\ task = [t \in Tasks |-> IdleTask]
  /\ now = 0
  /\ acqLog = <<>>
  /\ budget = [NoBudget EXCEPT !.limit = calls]
  /\ crawl \in crawls

\* the engine without a document being resolved
InitWith(rate_configs, retry_configs, sizes, calls, crawls) ==
  /\ InitParts(rate_configs, retry_configs, sizes, calls, crawls)
  /\ matcher = NoMatcher
  /\ rotator = NoRotator
  /\ extractor = NoExtractor
  /\ price = NoPrice
  /\ notifier = NoNotifier

\* the governor of one host with its callers
InitGov ==
  InitWith(RateConfigs, {c \in RetryConfigs : c.max_attempts = 3 /\ ~c.jitter}, {1},
           MaxCalls, {NoCrawl})

NextGov ==
  \/ \E t \in Tasks : CallAcquire(t)
  \/ \E t \in Tasks : LockGranted(t)
  \/ \E t \in Tasks : AfterBlock(t)
  \/ \E t \in Tasks : AfterLimit(t)
  \/ \E t \in Tasks : AfterPacing(t)
  \/ \E t \in Tasks, s \in ReportStatuses : CallReportError(t, s)
  \/ \E t \in Tasks : CallReportSuccess(t)
  \/ WakeNext
  \/ \E d \in ElapseSteps : Elapse(d)

SpecGov == InitGov /\ [][NextGov]_vars

\* the governor with reset() among its calls
NextReset ==
  \/ NextGov
  \/ \E t \in Tasks : CallReset(t)

SpecReset == InitGov /\ [][NextReset]_vars

\* retry_async on its own, around an arbitrary operation
InitRetry ==
  InitWith({c \in RateConfigs : c.adaptive /\ c.min_delay > 0}, RetryConfigs, {1},
           MaxCalls, {NoCrawl})

NextRetry ==
  \/ \E t \in Tasks, cb \in BOOLEAN, excs \in RetryableArgs : RetryStart(t, cb, excs)
  \/ \E t \in Tasks, o \in OpOutcomes, draw \in Draws(retry_config) : Operation(t, o, draw)
  \/ \E t \in Tasks : RetryWake(t)
  \/ WakeNext
  \/ \E d \in ElapseSteps : Elapse(d)

SpecRetry == InitRetry /\ [][NextRetry]_vars

\* concurrent fetch_page calls of one parser
InitFetch ==
  InitWith({c \in RateConfigs : c.adaptive /\ c.min_delay > 0},
           {c \in RetryConfigs : c.max_attempts = 2 /\ ~c.jitter}, {1, 2}, MaxCalls,
           {NoCrawl})

NextFetch ==
  \/ \E t \in Tasks, roe \in BOOLEAN : FetchStart(t, roe)
  \/ \E t \in Tasks : SemGranted(t)
  \/ \E t \in Tasks : LockGranted(t)
  \/ \E t \in Tasks : AfterBlock(t)
  \/ \E t \in Tasks : AfterLimit(t)
  \/ \E t \in Tasks : AfterPacing(t)
  \/ \E t \in Tasks, r \in NetOutcomes, draw \in Draws(retry_config) : Respond(t, r, draw)
  \/ \E t \in Tasks, draw \in Draws(retry_config) : ReportGranted(t, draw)
  \/ \E t \in Tasks : RetryWake(t)
  \/ \E t \in Tasks : Cancel(t)
  \/ WakeNext

SpecFetch == InitFetch /\ [][NextFetch]_vars

\* the answers a crawl gets: a page, or a 429
CrawlAnswers == {r \in NetOutcomes : r.kind = "status" /\ r.status \in {200, 429}}

\* crawls of one parser, page after page, that can be cancelled
InitCancel ==
  InitWith({c \in RateConfigs : c.adaptive /\ c.min_delay > 0},
           {c \in RetryConfigs : c.max_attempts = 2 /\ ~c.jitter}, {1, 2}, MaxCalls,
           {NoCrawl})

NextCancel ==
  \/ \E t \in Tasks : FetchStart(t, TRUE)
  \/ \E t \in Tasks : SemGranted(t)
  \/ \E t \in Tasks : LockGranted(t)
  \/ \E t \in Tasks : AfterBlock(t)
  \/ \E t \in Tasks : AfterLimit(t)
  \/ \E t \in Tasks : AfterPacing(t)
  \/ \E t \in Tasks, r \in CrawlAnswers : Respond(t, r, 0)
  \/ \E t \in Tasks : ReportGranted(t, 0)
  \/ \E t \in Tasks : RetryWake(t)
  \/ \E t \in Tasks : Cancel(t)
  \/ \E t \in Tasks : PageDelay(t)
  \/ \E t \in Tasks : PageDelayOver(t)
  \/ WakeNext

SpecCancel == InitCancel /\ [][NextCancel]_vars

\* what the event loop does for the fetch_page calls in progress: it resumes a
\* coroutine whose lock, slot, sleep or answer is ready
FetchProgress ==
  \/ \E t \in Tasks : SemGranted(t)
  \/ \E t \in Tasks : LockGranted(t)
  \/ \E t \in Tasks : AfterBlock(t)
  \/ \E t \in Tasks : AfterLimit(t)
  \/ \E t \in Tasks : AfterPacing(t)
  \/ \E t \in Tasks, r \in CrawlAnswers : Respond(t, r, 0)
  \/ \E t \in Tasks : ReportGranted(t, 0)
  \/ \E t \in Tasks : RetryWake(t)
  \/ WakeNext

\* concurrent fetches of a parser with one slot or two
InitLive ==
  InitWith({c \in RateConfigs : c.adaptive /\ c.min_delay > 0},
           {c \in RetryConfigs : c.max_attempts = 2 /\ ~c.jitter}, {1, 2}, MaxCalls,
           {NoCrawl})

NextLive ==
  \/ \E t \in Tasks : FetchStart(t, TRUE)
  \/ FetchProgress

\* concurrent fetch_page calls that are not cancelled, under an event loop
\* that runs what is ready, with network calls and sleeps that end
SpecLive == InitLive /\ [][NextLive]_vars /\ WF_vars(FetchProgress)

\* the feedback of the callers alone: a run of report_error / report_success
InitFeedback ==
  InitWith(RateConfigs, {c \in RetryConfigs : c.max_attempts = 3 /\ ~c.jitter}, {1},
           MaxReports, {NoCrawl})

NextFeedback ==
  \/ \E t \in Tasks, s \in ReportStatuses : CallReportError(t, s)
  \/ \E t \in Tasks : CallReportSuccess(t)

SpecFeedback == InitFeedback /\ [][NextFeedback]_vars

\* one walk over the pages of the site
InitCrawl ==
  InitWith({c \in RateConfigs : c.adaptive /\ c.min_delay > 0},
           {c \in RetryConfigs : c.max_attempts = 3 /\ ~c.jitter}, {1}, MaxCalls,
           Crawls)

NextCrawl ==
  \/ CrawlStart
  \/ \E o \in PageOutcomes : PageParsed(o)
  \/ \E saved \in BOOLEAN : CrawlResumed(saved)
  \/ CrawlSleepOver

SpecCrawl == InitCrawl /\ [][NextCrawl]_vars

\* the shared selector_matcher and the documents given to it
InitResolve ==
  /\ InitParts({c \in RateConfigs : c.adaptive /\ c.min_delay > 0},
               {c \in RetryConfigs : c.max_attempts = 3 /\ ~c.jitter}, {1},
               MaxCalls, {NoCrawl})
  /\ matcher \in Matchers
  /\ rotator = NoRotator
  /\ extractor = NoExtractor
  /\ price = NoPrice
  /\ notifier = NoNotifier

NextResolve ==
  \/ \E f \in Fields : CallTestSelector(f)
  \/ \E f \in Fields : CallGetWorkingSelector(f)
  \/ \E soup \in Soups : NewSoup(soup)

SpecResolve == InitResolve /\ [][NextResolve]_vars

\* one UserAgentRotator and its callers
InitRotate ==
  /\ InitParts({c \in RateConfigs : c.adaptive /\ c.min_delay > 0},
               {c \in RetryConfigs : c.max_attempts = 3 /\ ~c.jitter}, {1},
               MaxCalls, {NoCrawl})
  /\ matcher = NoMatcher
  /\ \E cfg \in UserAgentConfigs : rotator = NewRotator(cfg)
  /\ extractor = NoExtractor
  /\ price = NoPrice
  /\ notifier = NoNotifier

NextRotate ==
  \/ CallGetUserAgent
  \/ CallGetHeaders
  \/ CallForceRotate

SpecRotate == InitRotate /\ [][NextRotate]_vars

\* the extraction of one page, in one process and again in another
InitExtract ==
  /\ InitParts({c \in RateConfigs : c.adaptive /\ c.min_delay > 0},
               {c \in RetryConfigs : c.max_attempts = 3 /\ ~c.jitter}, {1},
               MaxCalls, {NoCrawl})
  /\ matcher = NoMatcher
  /\ rotator = NoRotator
  /\ \E seed \in HashSeeds : extractor = NewExtractor(seed)
  /\ price = NoPrice
  /\ notifier = NoNotifier

NextExtract ==
  \/ \E cards \in CardPages : ParsePage(cards)
  \/ \E seed \in HashSeeds : ParseAgain(seed)

SpecExtract == InitExtract /\ [][NextExtract]_vars

\* _parse_price on every text
InitPrice ==
  /\ InitParts({c \in RateConfigs : c.adaptive /\ c.min_delay > 0},
               {c \in RetryConfigs : c.max_attempts = 3 /\ ~c.jitter}, {1},
               MaxCalls, {NoCrawl})
  /\ matcher = NoMatcher
  /\ rotator = NoRotator
  /\ extractor = NoExtractor
  /\ \E text \in PriceTexts : price = NewPrice(text)
  /\ notifier = NoNotifier

NextPrice == CallParsePrice

SpecPrice == InitPrice /\ [][NextPrice]_vars

\* one TelegramNotifier, its callers and its tasks
InitNotify ==
  /\ InitParts({c \in RateConfigs : c.adaptive /\ c.min_delay > 0},
               {c \in RetryConfigs : c.max_attempts = 3 /\ ~c.jitter}, {1},
               MaxCalls, {NoCrawl})
  /\ matcher = NoMatcher
  /\ rotator = NoRotator
  /\ extractor = NoExtractor
  /\ price = NoPrice
  /\ notifier = NoNotifier

NextNotify ==
  \/ SendProjectNotification
  \/ GroupTimeout
  \/ \E send \in notifier.sends : AcquireOver(send)
  \/ \E send \in notifier.sends, success \in BOOLEAN : SendOver(send, success)
  \/ FlushPendingGroups
  \/ CallClose
  \/ CloseResumed

SpecNotify == InitNotify /\ [][NextNotify]_vars

\* ======================================================== rate governor claims

\* C5: the check of the windows and the recording of the request are atomic:
\* a caller between its check and its record holds the lock, and every check
\* saw all the requests recorded before it (no two callers check the same
\* window contents and both proceed).
C5_CheckAndRecordAtomic ==
  /\ \A t \in Tasks :
       task[t].pc \in {"acq_blocked", "acq_limited"} => limiter.lock = t
  /\ \A i \in 1..Len(acqLog) : acqLog[i].seen = i - 1

\* a caller sleeps between its check and its record while another caller has
\* called acquire() too, and an earlier request is already recorded
C5_Witness ==
  \E t, u \in Tasks :
    /\ t # u
    /\ task[t].pc = "acq_limited"
    /\ task[u].pc = "acq_wait"
    /\ Len(acqLog) >= 1

\* the requests recorded within the last `horizon` ticks
RecordedWithin(horizon) ==
  Cardinality({i \in 1..Len(acqLog) : now - acqLog[i].at < horizon})

\* C6: the number of recorded request timestamps within the last 1 s, 60 s
\* and 3600 s never exceeds the per-second, per-minute and per-hour ceiling.
C6_WindowCeilings ==
  /\ RecordedWithin(SecondWindow) <= config.requests_per_second
  /\ RecordedWithin(MinuteWindow) <= config.requests_per_minute
  /\ RecordedWithin(HourWindow) <= config.requests_per_hour

\* a coroutine in the pacing sleep of one of the first N = requests_per_second
\* acquire() calls of a governor, the call not having met a block
PacingOfFirstN(t) ==
  /\ task[t].pc = "acq_pacing"
  /\ Len(acqLog) <= config.requests_per_second
  /\ task[t].enter >= task[t].blk

\* C7 as stated: each of the first N acquire() calls returns current_delay
\* after it was made, whatever other callers do.
C7_Original ==
  \A t \in Tasks :
    PacingOfFirstN(t) => task[t].wake = task[t].called + limiter.current_delay

\* C7 (amended): with N = requests_per_second, each of the first N acquire()
\* calls records its request at the moment it holds the governor's lock and
\* then sleeps only current_delay; a call made while another acquire() is in
\* progress first waits for the lock, which the other call holds through its
\* own sleep. The (N+1)-th request is recorded no earlier than one second
\* after the first.
C7_FirstNThenWait ==
  /\ \A k \in 1..Len(acqLog) :
       (k <= config.requests_per_second /\ acqLog[k].enter >= acqLog[k].blk)
         => acqLog[k].at = acqLog[k].enter
  /\ \A t \in Tasks :
       PacingOfFirstN(t) =>
         /\ task[t].called <= task[t].enter
         /\ task[t].wake = task[t].enter + limiter.current_delay
  /\ \A t \in Tasks :
       task[t].pc = "acq_pacing"
         => task[t].wake = acqLog[Len(acqLog)].at + limiter.current_delay
  /\ Len(acqLog) > config.requests_per_second
       => acqLog[config.requests_per_second + 1].at >= acqLog[1].at + SecondWindow

\* with N = 2: the second request was recorded after the first call's sleep,
\* the third call held the lock within the second of the first request and
\* has been recorded
C7_Witness ==
  /\ Len(acqLog) > config.requests_per_second
  /\ config.requests_per_second = 2
  /\ acqLog[3].enter < acqLog[1].at + SecondWindow
  /\ acqLog[2].at = acqLog[2].enter
  /\ acqLog[2].at > acqLog[1].at

\* the block report_error(429) is to set, from the state after the step
BlockSetBy429 ==
  /\ limiter'.is_blocked
  /\ limiter'.block_until =
       now + Min(limiter'.consecutive_errors * BlockPerError, config.recovery_time)

BlockKept == /\ limiter'.is_blocked = limiter.is_blocked
             /\ limiter'.block_until = limiter.block_until

\* an acquire() that started while now < block_until recorded its request no
\* earlier than that block_until
BlockedAcquiresWait ==
  \A i \in 1..Len(acqLog) :
     acqLog[i].enter < acqLog[i].blk => acqLog[i].at >= acqLog[i].blk

\* C8 as stated: report_error(429) always sets the block (also when the
\* governor is not adaptive).
C8_Original ==
  [][\A t \in Tasks : CallReportError(t, 429) => BlockSetBy429]_vars

\* C8 (amended): with config.adaptive, report_error(429) sets block_until =
\* now + min(consecutive_errors * 30 s, recovery_time), counting this error;
\* a report with any other status, and every report of a governor that is not
\* adaptive, leaves the block as it is; an acquire() that starts while
\* now < block_until records its request no earlier than block_until.
C8_TemporaryBlock ==
  /\ [][\A t \in Tasks, s \in ReportStatuses :
          CallReportError(t, s) =>
            IF config.adaptive /\ s = 429 THEN BlockSetBy429 ELSE BlockKept]_vars
  /\ []BlockedAcquiresWait

\* a request of an acquire() that started under a block has been recorded
C8_Witness ==
  \E i \in 1..Len(acqLog) :
     /\ acqLog[i].enter < acqLog[i].blk
     /\ acqLog[i].at >= acqLog[i].blk
     /\ limiter.consecutive_errors >= 1

DelayBackedOff ==
  limiter'.current_delay =
    Min(limiter.current_delay * config.backoff_factor, config.max_delay)

\* C10 as stated: report_error always adds one to consecutive_errors, and
\* multiplies current_delay exactly for the critical statuses and for no status.
C10_Original ==
  [][\A t \in Tasks, s \in ReportStatuses :
       CallReportError(t, s) =>
         /\ limiter'.consecutive_errors = limiter.consecutive_errors + 1
         /\ IF s \in {429, 503, 521, 522, 523, 524, NoStatus}
            THEN DelayBackedOff
            ELSE limiter'.current_delay = limiter.current_delay]_vars

\* C10 (amended): with config.adaptive, report_error(status) adds one to
\* consecutive_errors and multiplies current_delay by backoff_factor, capped
\* at max_delay, exactly when status is one of 429, 503, 521, 522, 523, 524;
\* for any other status and for no status current_delay is unchanged; without
\* config.adaptive the call changes nothing.
C10_ReportError ==
  [][\A t \in Tasks, s \in ReportStatuses :
       CallReportError(t, s) =>
         IF config.adaptive
         THEN /\ limiter'.consecutive_errors = limiter.consecutive_errors + 1
              /\ IF s \in {429, 503, 521, 522, 523, 524}
                 THEN DelayBackedOff
                 ELSE limiter'.current_delay = limiter.current_delay
         ELSE limiter' = limiter]_vars

\* two critical errors were reported and the delay reached its ceiling
C10_Witness ==
  /\ config.adaptive
  /\ limiter.consecutive_errors = 2
  /\ limiter.current_delay = config.max_delay
  /\ limiter.current_delay > config.min_delay

\* ============================================================ retry claims

\* an error the retry orchestrator is to retry: a network or timeout fault, or
\* an HTTP response with one of the retryable statuses
RetryableFault(e) ==
  /\ e.kind = "exc"
  /\ \/ e.cls \in {"ClientConnectionError", "TimeoutError", "RetryableError"}
     \/ /\ e.cls = "ClientResponseError"
        /\ e.status \in {429, 500, 502, 503, 504, 521, 522, 523, 524}

\* an error that is neither: fatal
FatalFault(e) ==
  /\ e.kind = "exc"
  /\ e.cls \in {"NonRetryableError", "ValueError"}

\* C1: when every attempt raises a retryable error and max_attempts = n >= 1,
\* retry_async invokes the operation exactly n times, sleeps exactly n - 1
\* times and raises the error of the n-th attempt.
C1_ExhaustsAttempts ==
  \A t \in Tasks :
    LET me == task[t]
        n == retry_config.max_attempts
    IN (n >= 1 /\ \A i \in 1..Len(me.hist) : RetryableFault(me.hist[i])) =>
         /\ me.pc # "returned"
         /\ Len(me.hist) <= n
         /\ me.sleeps <= n - 1
         /\ me.pc = "retry_sleep" => me.sleeps = Len(me.hist)
         /\ me.pc = "raised" =>
              /\ Len(me.hist) = n
              /\ me.sleeps = n - 1
              /\ me.raised = me.hist[n]
              /\ me.raised.k = n

\* three attempts, all failed with a retryable error, and the run has raised
C1_Witness ==
  \E t \in Tasks :
    /\ task[t].pc = "raised"
    /\ retry_config.max_attempts = 3
    /\ Len(task[t].hist) = 3
    /\ \A i \in 1..3 : RetryableFault(task[t].hist[i])
    /\ task[t].sleeps = 2

ClientError4xx(e) ==
  /\ e.kind = "exc"
  /\ e.cls = "ClientResponseError"
  /\ e.status >= 400 /\ e.status < 500 /\ e.status # 429

\* C3: a 4xx response other than 429 is fatal for fetch_page: the GET that
\* received it is the last of the fetch, no sleep and no retry follow it;
\* a fetch whose every GET failed with a retryable status or a network fault
\* gives up only after max_attempts GETs.
C3_ClientErrorsFatal ==
  \A t \in Tasks :
    LET me == task[t] IN
    /\ \A i \in 1..Len(me.hist) :
         ClientError4xx(me.hist[i]) =>
           /\ i = Len(me.hist)
           /\ me.pc \notin {"retry_sleep", "net"}
           /\ me.sleeps = i - 1
    /\ ( /\ me.retry_on_error
         /\ me.pc = "failed"
         /\ \A i \in 1..Len(me.hist) : RetryableFault(me.hist[i]) )
         => Len(me.hist) = retry_config.max_attempts

\* the fetch_page calls that hold a slot of the semaphore: inside
\* `async with self.semaphore`, neither returned nor raised nor cancelled
InFlight ==
  {t \in Tasks : task[t].pc \in {"acq_wait", "acq_blocked", "acq_limited",
                                 "acq_pacing", "net", "rep_wait", "retry_sleep"}}

\* C4: the fetch_page calls that hold a slot are never more than the size of
\* the semaphore; every slot not held by one of them is free again, whether
\* its holder returned, raised or was cancelled.
C4_SlotsBounded ==
  /\ Cardinality(InFlight) <= semaphore.size
  /\ semaphore.value = semaphore.size - Cardinality(InFlight)
  /\ \A t \in Tasks : task[t].slot <=> t \in InFlight

\* with one slot: the first fetch was cancelled after a failed GET, the second
\* got its slot and waits for an answer, having waited for the slot
C4_Witness ==
  /\ semaphore.size = 1
  /\ NumTasks >= 2
  /\ task[1].pc = "cancelled"
  /\ Len(task[1].hist) = 1
  /\ task[2].pc = "net"
  /\ semaphore.value = 0

\* C9: no GET is issued while a temporary block set by a 429 response is in
\* force (now < block_until), neither by the fetch that received the 429 nor
\* by another fetch.
C9_NoGetUnderBlock ==
  \A t \in Tasks : ~task[t].blockedGet

\* ========================================================= feedback claims

\* C11: an uninterrupted run of report_success() brings current_delay back to
\* min_delay: each success takes one from consecutive_errors (not below
\* zero), and a success that leaves the count at zero divides a current_delay
\* above min_delay by backoff_factor, down to min_delay.
C11_SuccessesRecover ==
  [][\A t \in Tasks :
       (CallReportSuccess(t) /\ config.adaptive) =>
         /\ limiter'.consecutive_errors = Max(limiter.consecutive_errors - 1, 0)
         /\ (limiter'.consecutive_errors = 0
               /\ limiter.current_delay > config.min_delay)
              => limiter'.current_delay =
                   Max(limiter.current_delay \div config.backoff_factor,
                       config.min_delay)]_vars

\* C12: when acquire() returns, is_blocked is clear, whether the block was
\* pending or had expired when acquire() was entered.
C12_ReturnsUnblocked ==
  [][\A t \in Tasks :
       ( /\ \/ CallAcquire(t) \/ LockGranted(t) \/ AfterBlock(t)
            \/ AfterLimit(t) \/ AfterPacing(t)
         /\ task'[t].pc = "idle" )
       => ~limiter'.is_blocked]_vars

\* =========================================================== walker claims

\* C13: a first page with at least one listing and has_next false gives
\* exactly one batch, and the stream ends without a second page being asked;
\* a first page with no listing ends the stream with no batch and no second
\* page.
C13_FirstPageEnds ==
  Len(crawl.pages) >= 1 =>
    LET first == crawl.pages[1] IN
    /\ (first.projects # <<>> /\ ~first.has_next)
         => /\ Len(crawl.yielded) = 1
            /\ crawl.requested = <<1>>
            /\ crawl.pc \in {"yielded", "done"}
    /\ first.projects = <<>>
         => /\ crawl.yielded = <<>>
            /\ crawl.requested = <<1>>
            /\ crawl.pc = "done"

\* the walk is over after one batch: the first page had two listings, one of
\* them known to the repository, and no next page
C13_Witness ==
  /\ crawl.pc = "done"
  /\ Len(crawl.pages) = 1
  /\ crawl.pages[1].projects = <<1, 2>>
  /\ ~crawl.pages[1].has_next
  /\ crawl.has_repo
  /\ Len(crawl.yielded) = 1
  /\ crawl.yielded[1].projects = <<2>>

\* C14: the pages asked are 1, 2, ..., k in this order; at most one
\* parse_single_page call is outstanding; page p + 1 is asked only after the
\* batch of page p was yielded and the consumer has resumed the generator.
C14_PagesInOrder ==
  /\ \A i \in 1..Len(crawl.requested) : crawl.requested[i] = i
  /\ crawl.outstanding \in {0, 1}
  /\ crawl.outstanding = 1 <=> crawl.pc = "fetching"
  /\ \A p \in 1..Len(crawl.requested) - 1 :
       /\ p <= Len(crawl.yielded)
       /\ crawl.yielded[p].page = p
  /\ crawl.pc = "yielded" => Len(crawl.requested) = Len(crawl.yielded)
  /\ crawl.pc = "sleeping" => Len(crawl.requested) = Len(crawl.yielded)

\* the third page is being fetched after two batches
C14_Witness ==
  /\ crawl.pc = "fetching"
  /\ crawl.requested = <<1, 2, 3>>
  /\ Len(crawl.yielded) = 2

\* C15: with max_pages = n >= 0 the walk asks at most n pages and yields at
\* most n batches.
C15_PageLimit ==
  crawl.max_pages.given =>
    /\ Len(crawl.requested) <= crawl.max_pages.n
    /\ Len(crawl.yielded) <= crawl.max_pages.n

\* the batches yielded so far are never changed
YieldedKept ==
  /\ Len(crawl'.yielded) >= Len(crawl.yielded)
  /\ SubSeq(crawl'.yielded, 1, Len(crawl.yielded)) = crawl.yielded

\* the fetch of page k (or the processing of what it returned) has failed
PageFailed(k) ==
  /\ k >= 1 /\ k <= Len(crawl.pages)
  /\ ~crawl.pages[k].ok

\* C16: when page k fails, the stream ends without raising to the consumer:
\* no page beyond k is asked, the batches of pages 1..k-1 stay as they were
\* yielded (for k > 1 an empty batch is yielded for page k itself), and
\* stats.errors is at least 1.
C16_FailedPageEndsStream ==
  /\ [](\A k \in 1..Len(crawl.pages) :
          PageFailed(k) =>
            /\ ~crawl.raised
            /\ crawl.pc \in {"yielded", "done"}
            /\ Len(crawl.requested) = k
            /\ crawl.failed_page = k
            /\ \A p \in 1..(k - 1) : crawl.yielded[p].page = p
            /\ Len(crawl.yielded) = IF k = 1 THEN 0 ELSE k
            /\ k > 1 => crawl.yielded[k].projects = <<>>
            /\ crawl.stats.errors >= 1)
  /\ [][YieldedKept]_vars

\* the second page failed after retries; the batch of the first page is kept
\* and the stream is over
C16_Witness ==
  /\ crawl.pc = "done"
  /\ PageFailed(2)
  /\ crawl.pages[2].fetch_errors = 2
  /\ crawl.yielded[1].projects # <<>>
  /\ crawl.stats.errors = 3

\* the value of the duplicate counter of the stats (0 when the stats have none)
duplicates_counted(st) ==
  IF "projects_duplicate" \in DOMAIN st THEN st.projects_duplicate ELSE 0

\* C17: with a repository, the yielded batch of a page is its listings without
\* those the repository reports as existing; each excluded listing adds one
\* to the duplicate counter and nothing to the new counter, each included
\* listing adds one to the new counter and nothing to the duplicate counter.
C17_NewAndDuplicateCounted ==
  [][\A o \in PageOutcomes :
       ( /\ PageParsed(o)
         /\ crawl.has_repo
         /\ crawl'.pc = "yielded" ) =>
       LET kept == filter_duplicates(o.projects, crawl.known, o.lookup_fails) IN
       /\ crawl'.yielded[Len(crawl'.yielded)].projects = kept
       /\ crawl'.stats.projects_new = crawl.stats.projects_new + Len(kept)
       /\ duplicates_counted(crawl'.stats) =
            duplicates_counted(crawl.stats) + Len(o.projects) - Len(kept)]_vars

\* the external_id values yielded so far, one entry per yielded listing
YieldedIds ==
  UNION {{<<b, i>> : i \in 1..Len(crawl.yielded[b].projects)} :
           b \in 1..Len(crawl.yielded)}

\* C18: with a repository, no external_id is in more than one yielded listing,
\* within one page or on different pages of the walk.
C18_StreamDeduplicated ==
  crawl.has_repo =>
    \A x, y \in YieldedIds :
       x # y => crawl.yielded[x[1]].projects[x[2]] # crawl.yielded[y[1]].projects[y[2]]

\* C19: a page 1 whose batch is empty after the filter ends the walk without
\* a yield; for a page > 1 the filtered batch is yielded even when empty.
C19_EmptyFirstBatchEnds ==
  /\ Len(crawl.yielded) >= 1 => crawl.yielded[1].projects # <<>>
  /\ \A i \in 2..Len(crawl.pages) :
       Len(crawl.yielded) >= i /\ crawl.yielded[i].page = i

\* ========================================================= resolver claims

\* C20: test_selector returns the primary expression of the field when it
\* selects an element of the document; the fallback when the primary selects
\* none and the fallback selects one; None when neither does, also for a field
\* with no expression.
C20_ResolveByDocument ==
  matcher.called =>
    LET primary == get_selector(matcher.field_name, FALSE)
        fallback == get_selector(matcher.field_name, TRUE)
        has_primary == primary # NoSelector /\ primary \in matcher.soup.matches
        has_fallback == fallback # NoSelector /\ fallback \in matcher.soup.matches
    IN /\ has_primary => matcher.returned = primary
       /\ (~has_primary /\ has_fallback) => matcher.returned = fallback
       /\ (~has_primary /\ ~has_fallback) => matcher.returned = NoSelector

\* C21: a second call for the same document and field returns the answer of
\* the first call, a selector or None, and makes no soup.select call.
C21_Memoized ==
  [][\A f \in Fields :
       ( /\ CallTestSelector(f) \/ CallGetWorkingSelector(f)
         /\ matcher.first[f] # Unasked )
       => /\ matcher'.returned = matcher.first[f]
          /\ matcher'.selects = 0]_vars

\* C22: whatever documents were parsed before, the answer for a document and
\* a field is the one its own markup gives: the first expression of the field
\* that selects an element of this document, else None.
C22_NoLeakAcrossDocuments ==
  matcher.called =>
    matcher.returned =
      first_working(get_all_selectors(matcher.field_name), matcher.soup)

\* ========================================================== rotator claims

\* a call of get_user_agent or get_headers, not of force_rotate
PlainCall == CallGetUserAgent \/ CallGetHeaders

\* C23: the fingerprint in use is returned by rotation_interval calls in a
\* row and by no more; the plain call after these selects another one, and
\* no plain call before does.
C23_RotationCadence ==
  /\ [](rotator.streak <= rotator.config.rotation_interval)
  /\ [][(PlainCall /\ rotator.current_agent # NoAgent) =>
          IF rotator.streak = rotator.config.rotation_interval
          THEN /\ rotator'.current_agent # rotator.current_agent
               /\ rotator'.rotations = rotator.rotations + 1
               /\ rotator'.streak = 1
          ELSE /\ rotator'.current_agent = rotator.current_agent
               /\ rotator'.rotations = rotator.rotations
               /\ rotator'.streak = rotator.streak + 1]_vars

\* the third fingerprint of a random rotation has been returned
\* rotation_interval = 2 times
C23_Witness ==
  /\ rotator.config.random_rotation
  /\ rotator.rotations = 3
  /\ rotator.streak = 2
  /\ rotator.config.rotation_interval = 2

\* C24: a rotation, due or forced, selects a fingerprint that is none of the
\* (up to) 5 selected last, the one it replaces included, when the pool has
\* more than 5 distinct fingerprints.
C24_AvoidsLastFive ==
  [][( /\ rotator'.rotations = rotator.rotations + 1
       /\ Cardinality(Range(rotator.agents_pool)) > 5 )
     => rotator'.current_agent \notin Range(LastN(rotator.used_agents, 5))]_vars

\* a forced rotation of a random rotator made the sixth selection, the five
\* before it being five different fingerprints
C24_Witness ==
  /\ rotator.config.random_rotation
  /\ rotator.rotations = 6
  /\ rotator.streak = 1
  /\ Cardinality(Range(SubSeq(rotator.used_agents, 1, 5))) = 5
  /\ rotator.used_agents[6] = rotator.current_agent

\* the browsers that send sec-ch-ua fields
ChromeFamily == {"Chrome", "Edge"}

\* C25: the headers returned by get_headers fit the fingerprint: the sec-ch-ua
\* fields are there exactly for a Chrome-family User-Agent, and then their
\* platform, mobile flag and version are the operating system, device class
\* and browser version the User-Agent names.
C25_HeadersCoherent ==
  rotator.headers # NoHeaders =>
    LET h == rotator.headers
        agent == h.user_agent
    IN /\ h.sec_ch_ua <=> agent.browser \in ChromeFamily
       /\ h.sec_ch_ua =>
            /\ h.platform = agent.os
            /\ h.mobile = agent.mobile
            /\ h.version = agent.version

\* the positions of the cards of the parsed page that give a listing: a title
\* element with a link, and fields Project accepts
ExtractedCards ==
  {i \in 1..Len(extractor.page) :
     /\ extractor.page[i].title
     /\ extractor.page[i].link # "none"
     /\ ~extractor.page[i].invalid}

\* C26: extract_project_data never raises: for a card without title or link,
\* or otherwise malformed, it returns None; a page with k cards of which m
\* fail extraction gives a batch of exactly k-m listings in document order,
\* and the failure of one card does not prevent the extraction of the others.
C26_MalformedCardSkipped ==
  /\ \A card \in Cards : \A seed \in HashSeeds :
       LET project == extract_project_data(card, seed)
       IN /\ project.kind \in {"project", "none"}
          /\ (~card.title \/ card.link = "none" \/ card.invalid) => project.kind = "none"
  /\ extractor.parsed =>
       /\ Len(extractor.batch) = Len(extractor.page) - Cardinality((1..Len(extractor.page)) \ ExtractedCards)
       /\ \A i \in ExtractedCards :
            LET n == Cardinality({j \in ExtractedCards : j <= i})
            IN /\ extractor.batch[n].link = extractor.page[i].link
               /\ extractor.batch[n].external_id = external_id_of(extractor.page[i], extractor.seed)

\* a page of two cards was parsed: the first is rejected by Project, the
\* second is the one listing of the batch
C26_Witness ==
  /\ extractor.parsed
  /\ Len(extractor.page) = 2
  /\ extractor.page[1].title /\ extractor.page[1].link # "none" /\ extractor.page[1].invalid
  /\ ExtractedCards = {2}
  /\ Len(extractor.batch) = 1

\* C27: the external_id of a listing is a function of its card alone: the
\* same page parsed in two processes gives the same external_ids, also when
\* the id comes from the link's hash.
C27_SameIdInEveryProcess ==
  extractor.processes > 1 =>
    /\ Len(extractor.batch) = Len(extractor.earlier)
    /\ \A i \in 1..Len(extractor.batch) :
         extractor.batch[i].external_id = extractor.earlier[i].external_id

\* C28: _parse_price follows one decision order for every text: a negotiable
\* keyword gives (None, NEGOTIABLE); else a text without a number gives
\* (None, NEGOTIABLE); else the first number is returned, HOURLY with an hour
\* unit, else RANGE with a range marker, else FIXED. (That a number is
\* returned is required where the number is beyond doubt: the text has one
\* run of digits and no dot.)
C28_DecisionOrder ==
  price.called =>
    LET has(token) == \E i \in 1..Len(price.text) : price.text[i] = token
        digits == {i \in 1..Len(price.text) : price.text[i] = "1500"}
    IN IF has("negotiable") \/ digits = {} THEN price.result = Negotiable
       ELSE /\ (Cardinality(digits) = 1 /\ ~has(".")) => price.result.price = <<"1500">>
            /\ price.result # Negotiable =>
                 price.result.price_type =
                   IF has("hour") THEN "hourly" ELSE IF has("to") THEN "range" ELSE "fixed"

\* C30: for every max_attempts, retry_async invokes func at most max_attempts
\* times, stops at the first attempt that succeeds and returns its result
\* with no further attempt or sleep, and otherwise raises an exception that
\* func itself raised.
C30_AttemptsBounded ==
  \A t \in Tasks :
    LET me == task[t]
        n == Len(me.hist)
    IN /\ n <= retry_config.max_attempts
       /\ \A i \in 1..(n - 1) : me.hist[i].kind # "ok"
       /\ (n > 0 /\ me.hist[n].kind = "ok") => (me.pc = "returned" /\ me.sleeps = n - 1)
       /\ me.pc = "returned" => (n > 0 /\ me.hist[n].kind = "ok")
       /\ me.pc = "raised" => \E i \in 1..n : me.hist[i] = me.raised

\* C29: a cancellation that reaches the crawl's task while it is suspended in
\* acquire(), in a retry delay, in the network call or in the delay between
\* pages is neither taken for a failed page nor retried: the task ends
\* cancelled, with no further GET or fetch, no failure reported to the
\* governor, and the governor's lock and the semaphore slot it held free.
C29_CancelPropagates ==
  [][\A t \in Tasks :
       /\ Cancel(t) =>
            /\ task'[t].pc = "cancelled"
            /\ task'[t].hist = task[t].hist
            /\ task'[t].sleeps = task[t].sleeps
            /\ limiter'.consecutive_errors = limiter.consecutive_errors
            /\ limiter'.lock # t
            /\ ~task'[t].slot
            /\ semaphore'.value = semaphore.value + (IF task[t].slot THEN 1 ELSE 0)
       /\ task[t].pc = "cancelled" => task'[t] = task[t]]_vars

\* with one slot: the first task was cancelled in its second fetch_page
\* before any answer came, the second task then got the slot and the lock
\* and waits for its answer
C29_Witness ==
  /\ semaphore.size = 1
  /\ NumTasks >= 2
  /\ task[1].pc = "cancelled"
  /\ task[1].hist = <<>>
  /\ budget.runs = 2
  /\ task[2].pc = "net"
  /\ limiter.lock = 0

\* ============================================================ later claims

\* the delay the spec gives for the retry after failed attempt k, before jitter
SpecDelay(k) ==
  LET grown == retry_config.base_delay * Pow(retry_config.exponential_base, k - 1)
                 * retry_config.backoff_multiplier
  IN IF grown < retry_config.max_delay THEN grown ELSE retry_config.max_delay

\* a delay d fits the retry after failed attempt k: not negative, within 10%
\* of the capped value, and the capped value itself without jitter
FitsSpecDelay(d, k) ==
  /\ d >= 0
  /\ 10 * (d - SpecDelay(k)) <= SpecDelay(k)
  /\ 10 * (SpecDelay(k) - d) <= SpecDelay(k)
  /\ ~retry_config.jitter => d = SpecDelay(k) /\ d <= retry_config.max_delay

\* C31: the delay before the retry after failed attempt k is
\* min(base_delay * exponential_base^(k-1) * backoff_multiplier, max_delay)
\* changed by at most 10% of that value and never negative; without jitter it
\* is that value exactly, so it does not decrease with k and never exceeds
\* max_delay. Checked for calculate_delay on every attempt number, and for
\* every sleep retry_async starts.
C31_DelayFormula ==
  /\ [](\A k \in 1..(retry_config.max_attempts + 1) : \A draw \in Draws(retry_config) :
          /\ FitsSpecDelay(calculate_delay(k, retry_config, draw), k)
          /\ (~retry_config.jitter /\ k > 1) =>
               calculate_delay(k - 1, retry_config, draw) <= calculate_delay(k, retry_config, draw))
  /\ [][\A t \in Tasks :
          (task[t].pc = "op" /\ task'[t].pc = "retry_sleep") =>
             FitsSpecDelay(task'[t].wake - now, task[t].attempt)]_vars

\* retry_async sleeps after its second failed attempt, under jitter, for the
\* capped value of 20 plus the greatest jitter
C31_Witness ==
  /\ retry_config.jitter
  /\ \E t \in Tasks :
       /\ task[t].pc = "retry_sleep"
       /\ task[t].attempt = 2
       /\ task[t].wake - now = SpecDelay(2) + SpecDelay(2) \div 10

\* C32: the governor gets exactly one report for each network attempt of a
\* fetch: report_success for a status below 400, report_error(status) for a
\* status of 400 or more, report_error() for a transport exception; so a
\* failed attempt raises consecutive_errors by exactly 1 and a success takes
\* 1 from it. (Checked on the attempts whose reports are made at once, the
\* lock being free.)
C32_OneReportPerAttempt ==
  [][\A t \in Tasks :
       ( /\ task[t].pc = "net"
         /\ Len(task'[t].hist) = Len(task[t].hist) + 1
         /\ task'[t].pc # "rep_wait"
         /\ task'[t].pending = <<>> )
       => limiter'.consecutive_errors =
            IF task'[t].hist[Len(task'[t].hist)].kind = "ok"
            THEN Max(limiter.consecutive_errors - 1, 0)
            ELSE limiter.consecutive_errors + 1]_vars

RECURSIVE GetsSent(_)
\* the GETs the tasks of a set have issued: the answered ones and the one in
\* flight
GetsSent(S) ==
  IF S = {} THEN 0
  ELSE LET t == CHOOSE u \in S : TRUE
       IN Len(task[t].hist) + (IF task[t].pc = "net" THEN 1 ELSE 0) + GetsSent(S \ {t})

\* C33: every GET of fetch_page, each retry included, is admitted by its own
\* acquire(): the GETs sent never outnumber the requests the governor has
\* recorded.
C33_EveryGetAdmitted ==
  GetsSent(Tasks) <= Len(acqLog)

\* C34: concurrent fetch_page calls, each holding a slot while it waits for
\* the governor's lock and taking the lock again for its reports, do not
\* deadlock: with a fair event loop and network calls and sleeps that end,
\* every call returns or raises, and has released its slot.
C34_EveryFetchEnds ==
  \A t \in Tasks :
    (task[t].pc # "idle") ~> (task[t].pc \in {"done", "failed"} /\ ~task[t].slot)

\* two concurrent calls of a parser with two slots have both ended, one
\* returned and one raised, and lock and slots are free
C34_Witness ==
  /\ semaphore.size = 2
  /\ NumTasks >= 2
  /\ task[1].pc = "done"
  /\ task[2].pc = "failed"
  /\ task[2].hist # <<>>
  /\ limiter.lock = 0
  /\ semaphore.value = 2

\* C35: every batch parse_all_pages yields was extracted from a page whose
\* fetch succeeded: a page that failed gives no batch, so the batches are
\* never more than the pages parsed (stats.pages_parsed), whatever the number
\* of the failed page.
C35_BatchesFromParsedPages ==
  /\ Len(crawl.yielded) <= crawl.stats.pages_parsed
  /\ \A i \in 1..Len(crawl.yielded) :
       \E j \in 1..Len(crawl.pages) :
         crawl.requested[j] = crawl.yielded[i].page /\ crawl.pages[j].ok

RECURSIVE ListingsYielded(_)
\* the number of listings in a sequence of batches
ListingsYielded(batches) ==
  IF batches = <<>> THEN 0
  ELSE Len(Head(batches).projects) + ListingsYielded(Tail(batches))

\* C36: stats.projects_new is never above stats.projects_found, and when a
\* walk has ended it is the number of listings yielded in all its batches,
\* with a repository or without one.
C36_NewCountsYielded ==
  /\ crawl.stats.projects_new <= crawl.stats.projects_found
  /\ crawl.pc = "done" => crawl.stats.projects_new = ListingsYielded(crawl.yielded)

\* C37: under a configuration with min_delay <= max_delay and
\* backoff_factor >= 1, whatever acquire, report_error, report_success and
\* reset calls are made, current_delay stays between min_delay and max_delay
\* and consecutive_errors is never negative.
C37_DelayWithinBounds ==
  (config.min_delay <= config.max_delay /\ config.backoff_factor >= 1) =>
    /\ config.min_delay <= limiter.current_delay
    /\ limiter.current_delay <= config.max_delay
    /\ limiter.consecutive_errors >= 0

\* three critical errors in a row: the delay has reached max_delay and the
\* last multiplication was cut off there
C37_Witness ==
  /\ config.min_delay < config.max_delay
  /\ limiter.consecutive_errors = 3
  /\ limiter.current_delay = config.max_delay
  /\ limiter.current_delay < config.min_delay * config.backoff_factor * config.backoff_factor
                               * config.backoff_factor

\* the times a fingerprint stands in a list
times(agent, agents) == Cardinality({i \in 1..Len(agents) : agents[i] = agent})

\* C38: a sequential rotator selects no fingerprint more often than the pool
\* holds it (its weight) before every fingerprint of the pool has been
\* selected.
C38_SequentialWalksPool ==
  ~rotator.config.random_rotation =>
    \A agent \in Range(rotator.agents_pool) :
      times(agent, rotator.used_agents) > times(agent, rotator.agents_pool)
        => Range(rotator.agents_pool) \subseteq Range(rotator.used_agents)

\* a sequential rotator over a pool without a repeated fingerprint has
\* selected each of them and the first of them again
C38_Witness ==
  /\ ~rotator.config.random_rotation
  /\ ~rotator.config.prefer_chrome
  /\ rotator.rotations = Len(rotator.agents_pool) + 1
  /\ Range(rotator.agents_pool) \subseteq Range(rotator.used_agents)

\* C39: an error of an attempt that is not the last is followed by a retry
\* exactly when it is an instance of the retryable_exceptions tuple the
\* caller gave and, when no tuple was given, exactly when the default set
\* makes it retryable.
C39_CustomTupleDecides ==
  [][\A t \in Tasks :
       ( /\ task[t].pc = "op"
         /\ Len(task'[t].hist) = Len(task[t].hist) + 1
         /\ task'[t].hist[Len(task'[t].hist)].kind = "exc"
         /\ task[t].attempt < retry_config.max_attempts )
       => LET e == task'[t].hist[Len(task'[t].hist)]
              arg == task[t].retryable_exceptions
          IN (task'[t].pc # "raised") <=>
               IF arg.given
               THEN Bases(e.cls) \cap retryable_exceptions_of(arg) # {}
               ELSE is_retryable_exception(e)]_vars

\* C40: every project queued for the chat is in the queue, or in a group
\* whose send has not reached bot.send_message yet, or was given to
\* bot.send_message in exactly one group; none is given twice.
C40_NoProjectDropped ==
  \A project \in 1..notifier.queued :
    LET groups == {g \in notifier.attempted : project \in Range(g)}
    IN /\ Cardinality(groups) <= 1
       /\ groups = {} =>
            \/ project \in Range(notifier.pending)
            \/ \E send \in notifier.sends :
                 send.stage = "acquire" /\ project \in Range(send.projects)

====
